---- MODULE Spec2Model ----
(***************************************************************************)
(* catnip TCP peer (src/rust/catnip/src/protocols/tcp/peer/mod.rs).        *)
(*                                                                         *)
(* State: the fields of TcpPeerState, the connection objects the peer's    *)
(* coroutines share (Rc<RefCell<TcpConnection>>), the coroutines started   *)
(* by connect / receive, and the events emitted through the runtime.       *)
(* A coroutine is a record with a position (pc); one action is the code a  *)
(* coroutine runs between two suspension points (await!, yield_until!,     *)
(* yield).  The scheduler may resume any unfinished coroutine, so the      *)
(* order in which coroutines are resumed is left open.  Time is abstract:  *)
(* the expiry of a timer (handshake retry budget, ARP query, trailing ACK  *)
(* delay) is a step that may be taken whenever the timer is armed.         *)
(***************************************************************************)
EXTENDS Integers, Sequences, FiniteSets, Bags, TLC

\* ---------------------------------------------------------------- bounds
NumHandles == 2          \* size of the connection-handle pool
NumPrivatePorts == 1     \* size of the private-port pool
MaxCalls == 3            \* calls of connect and receive

\* ------------------------------------------------------ program constants
FirstPrivatePort == 2    \* ip::Port::first_private_port(), scaled
HandshakeRetries == 2    \* options.tcp.handshake_retries
Half == 65536            \* a u32 is kept as <<high, low>> 16-bit halves

\* ------------------------------------------------------------ value sets
Handles == 1..NumHandles
PrivatePorts == FirstPrivatePort..(FirstPrivatePort + NumPrivatePorts - 1)
\* The ports listen is called with and inbound segments are addressed to: a
\* well-known port and a private one.
Ports == {1, FirstPrivatePort}
RemoteEndpoints == {"R1"}
Broadcast == "255.255.255.255"

\* Wrapping<u32>: the value high * 2^16 + low, and addition modulo 2^32 of a
\* natural number n < 2^16.
U32Max == <<Half - 1, Half - 1>>
U32Zero == <<0, 0>>
U32One == <<0, 1>>
SaturatingAdd(a, n) ==
    IF a[1] = Half - 1 /\ a[2] + n >= Half THEN <<Half - 1, Half - 1>>
    ELSE <<a[1] + ((a[2] + n) \div Half), (a[2] + n) % Half>>
WrappingAdd(a, n) ==
    <<(a[1] + ((a[2] + n) \div Half)) % Half, (a[2] + n) % Half>>

IsnValues == {U32Max}

is_private(port) == port >= FirstPrivatePort

NoCxnId == [local |-> 0, remote |-> "none"]
NoSegment == [lport |-> 0, remote |-> "none", syn |-> FALSE, ack |-> FALSE,
              rst |-> FALSE, seq |-> U32Zero, acknum |-> U32Zero, len |-> 0]

\* All orders of a finite set as sequences (ports.shuffle, handles.shuffle).
Shuffles(S) ==
    {f \in [1..Cardinality(S) -> S] : \A i, j \in 1..Cardinality(S) : f[i] = f[j] => i = j}

Remove(f, k) == [x \in DOMAIN f \ {k} |-> f[x]]
Insert(f, k, v) == [x \in DOMAIN f \cup {k} |-> IF x = k THEN v ELSE f[x]]

VARIABLES
    connections,                    \* TcpConnectionId -> Rc<RefCell<TcpConnection>>
    cxns,                           \* the TcpConnection objects behind the Rcs
    assigned_handles,               \* TcpConnectionHandle -> TcpConnectionId
    unassigned_connection_handles,  \* VecDeque<TcpConnectionHandle>
    unassigned_private_ports,       \* VecDeque<ip::Port>
    open_ports,                     \* HashSet<ip::Port>
    tasks,                          \* bag of the coroutines of the peer
    events,                         \* bag of the events emitted so far
    listened,                       \* ports on which listen has returned Ok
    ret,                            \* what the last step returned to its caller
    ncalls,                         \* calls of connect and receive so far
    panicked                        \* an assert! or unwrap() has failed

\* The clock of the runtime (rt.now(), in ticks) and, for every connection, the
\* times at which its handshake has sent its SYN.
VARIABLES now, syn_times

clock_vars == <<now, syn_times>>

\* The delayed ACK of main_connection_loop against the clock, by connection:
\* ack_owed_since (<<>> for None, <<t>> for Some(t)), the connections whose loop
\* has run in the current tick, and the ticks at which the loop has drained a
\* payload and has sent a pure ACK.
VARIABLES ack_owed_since, ran, payload_ticks, ack_ticks

delay_vars == <<ack_owed_since, ran, payload_ticks, ack_ticks>>

\* Icmpv4Peer: the coroutines started by ping and reply_to_ping (those of
\* reply_to_ping are the members of async_work), outstanding_requests,
\* ping_seq_num_counter, the number of Transmit events, and whether an assert!
\* or unwrap() has failed.  ping_calls counts the calls of ping in the lifetime
\* of the peer, and ping_log has <<k, seq_num>> for the call number k (from 0)
\* of this behaviour and the seq_num it has used.
VARIABLES icmp_tasks, outstanding_requests, ping_seq_num_counter, icmp_transmits,
          icmp_panicked, ping_calls, ping_log

seq_num_vars == <<ping_seq_num_counter, ping_calls, ping_log>>
icmp_vars == <<icmp_tasks, outstanding_requests, seq_num_vars, icmp_transmits,
               icmp_panicked>>

\* Coroutine: the coroutines by CoroutineId, the clock of their scheduler, and
\* what the last call of resume has returned; co_resumed has the coroutines
\* whose generator was resumed at the current value of the clock.
VARIABLES coroutines, co_clock, co_ret, co_resumed

coroutine_vars == <<coroutines, co_clock, co_ret, co_resumed>>

\* ArpCache: the forward cache (HashTtlCache<Ipv4Addr, Record> with the expiry
\* of every entry), rmap, the clock of the cache, and whether an assert! has
\* failed or a panic! was reached; arp_ret is the call of try_evict that has
\* just returned: its count, the (ipv4, mac) entries the forward cache held
\* when it was called, and the map it has returned.
VARIABLES cache, rmap, arp_clock, arp_panicked, arp_ret

arp_vars == <<cache, rmap, arp_clock, arp_panicked, arp_ret>>

\* Icmpv4Peer::ping against the clock, by seq_num: the timeout of the call, t0
\* of the coroutine, the time at which its yield_until! has begun and the
\* Duration it has returned (<<>> until there is one), and the pings whose
\* coroutine has run in the current tick.
VARIABLES ping_timeout, ping_t0, ping_since, ping_duration, ping_ran

ping_vars == <<ping_timeout, ping_t0, ping_since, ping_duration, ping_ran>>

\* The variables the timed operations of the TCP peer leave alone.
peer_vars == <<icmp_vars, coroutine_vars, arp_vars, ping_vars>>
\* The variables the operations of the TCP peer leave alone.
aux_vars == <<clock_vars, delay_vars, peer_vars>>

tcp_vars == <<connections, cxns, assigned_handles, unassigned_connection_handles,
              unassigned_private_ports, open_ports, tasks, events, listened, ret,
              ncalls, panicked>>
vars == <<tcp_vars, aux_vars>>

\* ---------------------------------------------------------------- events
Transmit(seg) == [type |-> "Transmit", handle |-> 0, error |-> "none", seg |-> seg]
IncomingTcpConnection(h) ==
    [type |-> "IncomingTcpConnection", handle |-> h, error |-> "none", seg |-> NoSegment]
TcpConnectionClosed(h, e) ==
    [type |-> "TcpConnectionClosed", handle |-> h, error |-> e, seg |-> NoSegment]

emit_event(bag, e) == bag (+) SetToBag({e})
Emitted(e) == CopiesIn(e, events)

\* ------------------------------------------------ TcpConnection, TcpSegment
\* TcpConnection::new(cxnid, handle, local_isn, ..)
TcpConnection_new(cxnid, handle, local_isn) ==
    [id |-> cxnid, handle |-> handle, local_isn |-> local_isn,
     seq_num |-> local_isn, remote_isn_set |-> FALSE, ack_num |-> U32Zero,
     receive_queue |-> <<>>, delivered |-> 0]

set_remote_isn(cxn, isn) ==
    [cxn EXCEPT !.remote_isn_set = TRUE, !.ack_num = WrappingAdd(isn, 1)]

incr_seq_num(cxn) == [cxn EXCEPT !.seq_num = WrappingAdd(cxn.seq_num, 1)]

\* TcpSegment::default().connection(&cxn)
SegmentOf(cxn) ==
    [lport |-> cxn.id.local, remote |-> cxn.id.remote, syn |-> FALSE,
     ack |-> cxn.remote_isn_set, rst |-> FALSE, seq |-> cxn.seq_num,
     acknum |-> cxn.ack_num, len |-> 0]

\* TcpConnection::receive(segment): in-order payload advances the receive
\* sequence number; the call returns Ok or Ignored, and the main loop goes on
\* after either.
cxn_receive(cxn, seg) ==
    [cxn EXCEPT !.delivered = cxn.delivered + 1,
                !.ack_num = IF seg.len > 0 /\ seg.seq = cxn.ack_num
                            THEN WrappingAdd(cxn.ack_num, seg.len)
                            ELSE cxn.ack_num]

RECURSIVE ReceiveAll(_, _)
ReceiveAll(cxn, segs) ==
    IF segs = <<>> THEN cxn
    ELSE ReceiveAll(cxn_receive(cxn, Head(segs)), Tail(segs))

\* Index of the first segment of q with RST set, 0 when there is none.
FirstRst(q) ==
    IF \E i \in 1..Len(q) : q[i].rst
    THEN CHOOSE i \in 1..Len(q) : q[i].rst /\ \A j \in 1..(i - 1) : ~q[j].rst
    ELSE 0

HasPayload(segs) == \E i \in 1..Len(segs) : segs[i].len > 0

\* ------------------------------------------------------------- coroutines
\* A coroutine started by the peer: kind is the function that started it
\* ("connect", "passive" for new_passive_connection, "established" for
\* on_connection_established, "rst" for the cast of a closed port's RST), pc its
\* position, bg where its future is held: "queue" (background_queue), "work"
\* (background_work) or "caller" (returned by connect).
NewTask(kind, pc, cxnid, cxn, seg, bg) ==
    [kind |-> kind, pc |-> pc, cxnid |-> cxnid, cxn |-> cxn, round |-> 0, error |-> "none",
     result |-> "pending", value |-> 0, seg |-> seg, ack_owed |-> FALSE,
     bg |-> bg]

Tasks == BagToSet(tasks)

Complete(task, result, value) ==
    [task EXCEPT !.pc = "done", !.result = result, !.value = value]

Without(bag, x) == bag (-) SetToBag({x})
With(bag, x) == bag (+) SetToBag({x})
Resumed(task, after) == With(Without(tasks, task), after)

\* background_work.add(fut) where connect has background_queue.push_back(fut).
added_to_background_work(fut) == [fut EXCEPT !.bg = "work"]

\* connect: background_queue.borrow_mut().push_back(fut)
pushed_to_background_queue(fut) == [fut EXCEPT !.bg = "queue"]

background_queue == {task \in Tasks : task.bg = "queue"}
background_work == {task \in Tasks : task.bg = "work"}

\* ------------------------------------------------------------------ inputs
\* The inbound segments receive is called with: a bare SYN, a SYN+ACK and an ACK
\* that acknowledge the ISN, an ACK with one byte of payload, an ACK that
\* acknowledges something else, a RST, each to either port; and a SYN whose
\* source address is the broadcast address.
Shape(syn, ack, rst, acknum, len) ==
    [syn |-> syn, ack |-> ack, rst |-> rst, acknum |-> acknum, len |-> len]

Shapes == {Shape(TRUE,  FALSE, FALSE, U32Zero, 0),
           Shape(TRUE,  TRUE,  FALSE, U32Zero, 0),
           Shape(FALSE, TRUE,  FALSE, U32Zero, 0),
           Shape(FALSE, TRUE,  FALSE, U32Zero, 1),
           Shape(FALSE, TRUE,  FALSE, U32One,  0),
           Shape(FALSE, FALSE, TRUE,  U32Zero, 0)}

InboundSegment(lport, remote, shape) ==
    [lport |-> lport, remote |-> remote, syn |-> shape.syn, ack |-> shape.ack,
     rst |-> shape.rst, seq |-> U32Max, acknum |-> shape.acknum, len |-> shape.len]

InboundSegments ==
    {InboundSegment(p, r, sh) : p \in Ports, r \in RemoteEndpoints, sh \in Shapes}
    \cup {InboundSegment(1, Broadcast, Shape(TRUE, FALSE, FALSE, U32Zero, 0))}

\* -------------------------------------------------------------------- Init
\* TcpPeerState::new
ClockInit ==
    /\ now = 0
    /\ syn_times = [h \in Handles |-> <<>>]

\* main_connection_loop: let mut ack_owed_since = None
DelayInit ==
    /\ ack_owed_since = [h \in Handles |-> <<>>]
    /\ ran = {}
    /\ payload_ticks = [h \in Handles |-> <<>>]
    /\ ack_ticks = [h \in Handles |-> <<>>]

\* generate_seq_num: the counter after seq_num was handed out.
SeqNumNoWrap(seq_num) == seq_num + 1
SeqNumAfter(seq_num) == (seq_num + 1) % Half

\* The Wrapping<u16> counter of a peer on which ping was called calls times.
SeqNumCounter(calls) == calls % Half

\* The peer after calls calls of ping, all of them answered.
IcmpAfter(calls) ==
    /\ icmp_tasks = EmptyBag
    /\ outstanding_requests = {}
    /\ ping_seq_num_counter = SeqNumCounter(calls)
    /\ icmp_transmits = 0
    /\ icmp_panicked = FALSE
    /\ ping_calls = calls
    /\ ping_log = {}

\* Icmpv4Peer::new
IcmpInit == IcmpAfter(0)

\* The coroutines an Icmpv4Peer has at most, and the seq_nums of its pings.
MaxIcmpTasks == 3
PingSeqNums == 0..(MaxIcmpTasks - 1)

\* No ping has been called.
PingInit ==
    /\ ping_timeout = [seq_num \in PingSeqNums |-> <<>>]
    /\ ping_t0 = [seq_num \in PingSeqNums |-> <<>>]
    /\ ping_since = [seq_num \in PingSeqNums |-> <<>>]
    /\ ping_duration = [seq_num \in PingSeqNums |-> <<>>]
    /\ ping_ran = {}

\* A scheduler without coroutines; no call of resume yet.
NoCall == [id |-> 0, value |-> "none", yielded |-> <<>>, ran |-> FALSE]

CoroutineInit ==
    /\ coroutines = [id \in {} |-> 0]
    /\ co_clock = 0
    /\ co_ret = NoCall
    /\ co_resumed = {}

\* ArpCache::new
\* No call of try_evict has just returned.
NoEvict == [count |-> 0, held |-> <<>>, result |-> <<>>]

ArpInit ==
    /\ cache = [k \in {} |-> 0]
    /\ rmap = [k \in {} |-> 0]
    /\ arp_clock = 0
    /\ arp_panicked = FALSE
    /\ arp_ret = NoEvict

AuxInit == ClockInit /\ DelayInit /\ IcmpInit /\ CoroutineInit /\ ArpInit /\ PingInit

TcpInit ==
    /\ connections = [k \in {} |-> 0]
    /\ cxns = [h \in {} |-> 0]
    /\ assigned_handles = [h \in {} |-> NoCxnId]
    /\ unassigned_connection_handles \in Shuffles(Handles)
    /\ unassigned_private_ports \in Shuffles(PrivatePorts)
    /\ open_ports = {}
    /\ tasks = EmptyBag
    /\ events = EmptyBag
    /\ listened = {}
    /\ ret = "none"
    /\ ncalls = 0
    /\ panicked = FALSE

Init == AuxInit /\ TcpInit

\* A listen that does not look for the port in open_ports.
listen_unchecked(port) ==
    /\ ~panicked
    /\ open_ports' = open_ports \cup {port}
    /\ listened' = listened \cup {port}
    /\ ret' = "Ok"
    /\ UNCHANGED <<connections, cxns, assigned_handles, unassigned_connection_handles,
                   unassigned_private_ports, tasks, events, ncalls, panicked>>

\* ------------------------------------------------------- TcpPeer::listen
listen(port) ==
    /\ ~panicked
    /\ IF port \in open_ports
       THEN /\ ret' = "ResourceBusy"
            /\ UNCHANGED <<open_ports, listened>>
       ELSE /\ open_ports' = open_ports \cup {port}
            /\ listened' = listened \cup {port}
            /\ ret' = "Ok"
    /\ UNCHANGED <<connections, cxns, assigned_handles, unassigned_connection_handles,
                   unassigned_private_ports, tasks, events, ncalls, panicked>>

\* ------------------------------------------------------ TcpPeer::receive
\* RstAckNum without the byte of sequence space the SYN bit occupies.
RstAckNumNoSyn(seg) == WrappingAdd(seg.seq, seg.len)

\* ack_num of the RST sent for a segment to a closed port.
RstAckNum(seg) ==
    WrappingAdd(WrappingAdd(seg.seq, seg.len), IF seg.syn THEN 1 ELSE 0)

RstSegmentFor(seg) ==
    [lport |-> seg.lport, remote |-> seg.remote, syn |-> FALSE, ack |-> TRUE,
     rst |-> TRUE, seq |-> U32Zero, acknum |-> RstAckNum(seg), len |-> 0]

\* A push to the front of the receive_queue.
push_front(cxn, segment) == [cxn EXCEPT !.receive_queue = <<segment>> \o @]

\* cxn.borrow_mut().receive_queue_mut().push_back(segment)
push_back(cxn, segment) == [cxn EXCEPT !.receive_queue = Append(@, segment)]

receive(seg) ==
    /\ ~panicked
    /\ ncalls < MaxCalls
    /\ ncalls' = ncalls + 1
    /\ UNCHANGED <<connections, assigned_handles, unassigned_connection_handles,
                   unassigned_private_ports, open_ports, events, listened, panicked>>
    /\ IF seg.remote = Broadcast
       THEN /\ ret' = "Malformed"
            /\ UNCHANGED <<cxns, tasks>>
       ELSE IF seg.lport \in open_ports
       THEN IF seg.syn /\ ~seg.ack /\ ~seg.rst
            THEN /\ tasks' = With(tasks, NewTask("passive", "start", NoCxnId, 0, seg, "work"))
                 /\ ret' = "Ok"
                 /\ UNCHANGED cxns
            ELSE LET cxnid == [local |-> seg.lport, remote |-> seg.remote] IN
                 IF cxnid \in DOMAIN connections
                 THEN /\ cxns' = [cxns EXCEPT ![connections[cxnid]] = push_back(@, seg)]
                      /\ ret' = "Ok"
                      /\ UNCHANGED tasks
                 ELSE /\ ret' = "ResourceNotFound"
                      /\ UNCHANGED <<cxns, tasks>>
       ELSE /\ tasks' = With(tasks, NewTask("rst", "cast", NoCxnId, 0,
                                    RstSegmentFor(seg), "work"))
            /\ ret' = "Ok"
            /\ UNCHANGED cxns

\* ------------------------------------------------------ TcpPeer::connect
\* The call only starts the coroutine; its body runs when it is first resumed.
connect(remote) ==
    /\ ~panicked
    /\ ncalls < MaxCalls
    /\ ncalls' = ncalls + 1
    /\ tasks' = With(tasks, NewTask("connect", "start", [local |-> 0, remote |-> remote],
                                    0, NoSegment, "caller"))
    /\ ret' = "none"
    /\ UNCHANGED <<connections, cxns, assigned_handles, unassigned_connection_handles,
                   unassigned_private_ports, open_ports, events, listened, panicked>>

\* --------------------------------------------- TcpPeerState::new_connection
\* The state change of a successful new_connection; remote_syn is the SYN a
\* passive open was started by (NoSegment for an active open).
new_connection(cxnid, local_isn, remote_syn) ==
    LET handle == Head(unassigned_connection_handles)
        fresh == TcpConnection_new(cxnid, handle, local_isn)
    IN  /\ unassigned_connection_handles' = Tail(unassigned_connection_handles)
        /\ cxns' = Insert(cxns, handle, IF remote_syn.syn
                                        THEN set_remote_isn(fresh, remote_syn.seq)
                                        ELSE fresh)
        /\ connections' = Insert(connections, cxnid, handle)
        /\ assigned_handles' = Insert(assigned_handles, handle, cxnid)
        /\ open_ports' = open_ports \cup {cxnid.local}

\* The asserts of new_connection: both inserts must find the key absent.
new_connection_asserts(cxnid) ==
    /\ cxnid \notin DOMAIN connections
    /\ Head(unassigned_connection_handles) \notin DOMAIN assigned_handles

\* ------------------------------------------- connect coroutine, first part
\* acquire_private_port and the construction of the connection id.
connect_start(task) ==
    /\ ~panicked
    /\ task.kind = "connect" /\ task.pc = "start"
    /\ IF unassigned_private_ports = <<>>
       THEN /\ tasks' = Resumed(task, Complete(task, "ResourceExhausted", 0))
            /\ UNCHANGED unassigned_private_ports
       ELSE /\ unassigned_private_ports' = Tail(unassigned_private_ports)
            /\ tasks' = Resumed(task,
                   [task EXCEPT !.pc = "new_active_connection",
                                !.cxnid.local = Head(unassigned_private_ports)])
    /\ ret' = "none"
    /\ UNCHANGED <<connections, cxns, assigned_handles, unassigned_connection_handles,
                   open_ports, events, listened, ncalls, panicked>>

\* new_active_connection up to its await of handshake.
new_active_connection(task) ==
    /\ ~panicked
    /\ task.kind = "connect" /\ task.pc = "new_active_connection"
    /\ IF unassigned_connection_handles = <<>>
       THEN /\ tasks' = Resumed(task, [task EXCEPT !.pc = "close",
                                                   !.error = "ResourceExhausted"])
            /\ UNCHANGED <<connections, cxns, assigned_handles,
                           unassigned_connection_handles, open_ports, panicked>>
       ELSE IF ~new_connection_asserts(task.cxnid)
       THEN /\ panicked' = TRUE
            /\ UNCHANGED <<connections, cxns, assigned_handles,
                           unassigned_connection_handles, open_ports, tasks>>
       ELSE /\ \E isn \in IsnValues : new_connection(task.cxnid, isn, NoSegment)
            /\ tasks' = Resumed(task, [task EXCEPT !.pc = "handshake",
                                          !.cxn = Head(unassigned_connection_handles)])
            /\ UNCHANGED panicked
    /\ ret' = "none"
    /\ UNCHANGED <<unassigned_private_ports, events, listened, ncalls>>

\* new_passive_connection up to its await of handshake.
new_passive_connection(task) ==
    /\ ~panicked
    /\ task.kind = "passive" /\ task.pc = "start"
    /\ LET syn_segment == task.seg
           cxnid == [local |-> syn_segment.lport, remote |-> syn_segment.remote]
       IN IF ~(syn_segment.syn /\ ~syn_segment.ack /\ syn_segment.lport \in open_ports)
          THEN /\ panicked' = TRUE
               /\ UNCHANGED <<connections, cxns, assigned_handles,
                              unassigned_connection_handles, open_ports, tasks>>
          ELSE IF unassigned_connection_handles = <<>>
          THEN /\ tasks' = Resumed(task, Complete(task, "ResourceExhausted", 0))
               /\ UNCHANGED <<connections, cxns, assigned_handles,
                              unassigned_connection_handles, open_ports, panicked>>
          ELSE IF ~new_connection_asserts(cxnid)
          THEN /\ panicked' = TRUE
               /\ UNCHANGED <<connections, cxns, assigned_handles,
                              unassigned_connection_handles, open_ports, tasks>>
          ELSE /\ \E isn \in IsnValues : new_connection(cxnid, isn, syn_segment)
               /\ tasks' = Resumed(task, [task EXCEPT !.pc = "handshake",
                                             !.cxnid = cxnid,
                                             !.cxn = Head(unassigned_connection_handles)])
               /\ UNCHANGED panicked
    /\ ret' = "none"
    /\ UNCHANGED <<unassigned_private_ports, events, listened, ncalls>>

\* ------------------------------------------------- TcpPeerState::handshake
\* How the awaiting coroutine goes on when its handshake has failed with e:
\* connect closes the connection, new_passive_connection returns the error.
HandshakeFailed(task, e) ==
    IF task.kind = "connect"
    THEN [task EXCEPT !.pc = "close", !.error = e]
    ELSE Complete(task, e, 0)

\* await!(handshake, now, Retry::binary_exponential(timeout, retries)): a round
\* that ends in Timeout starts the handshake again while retries remain.
RetryHandshake(task) ==
    IF task.round < HandshakeRetries
    THEN [task EXCEPT !.pc = "handshake", !.round = task.round + 1]
    ELSE HandshakeFailed(task, "Timeout")

\* The SYN (active) or SYN+ACK (passive) the handshake sends.
SynSegmentOf(cxn) == [SegmentOf(cxn) EXCEPT !.syn = TRUE]

\* An acceptance test that does not look at the SYN bit.
HandshakeAcceptsAnyAck(cxn, segment) ==
    /\ segment.ack
    /\ segment.acknum = WrappingAdd(SynSegmentOf(cxn).seq, 1)

\* The segment that completes the handshake.
HandshakeAccepts(cxn, segment) ==
    /\ segment.ack
    /\ SynSegmentOf(cxn).ack # segment.syn
    /\ segment.acknum = WrappingAdd(SynSegmentOf(cxn).seq, 1)

\* handshake from its start to the end of its cast of the SYN.
handshake(task) ==
    /\ ~panicked
    /\ task.pc = "handshake"
    /\ \E arp_ok \in BOOLEAN :
          IF arp_ok
          THEN /\ events' = emit_event(events, Transmit(SynSegmentOf(cxns[task.cxn])))
               /\ tasks' = Resumed(task, [task EXCEPT !.pc = "handshake_wait"])
          ELSE /\ tasks' = Resumed(task, RetryHandshake(task))
               /\ UNCHANGED events
    /\ ret' = "none"
    /\ UNCHANGED <<connections, cxns, assigned_handles, unassigned_connection_handles,
                   unassigned_private_ports, open_ports, listened, ncalls, panicked>>

\* new_active_connection after the handshake with the sequence number left as
\* it was.
AfterSynAckNoIncr(cxn, ack_segment) == set_remote_isn(cxn, ack_segment.seq)

\* new_active_connection after the handshake: set_remote_isn, incr_seq_num.
AfterSynAck(cxn, ack_segment) == incr_seq_num(set_remote_isn(cxn, ack_segment.seq))

\* new_passive_connection after the handshake without its emit_event.
IncomingNotEmitted(bag, cxn) == bag

\* new_passive_connection after the handshake:
\* rt.emit_event(Event::IncomingTcpConnection(cxn.get_handle())).
IncomingEmitted(bag, cxn) == emit_event(bag, IncomingTcpConnection(cxn.handle))

\* One turn of the handshake's loop with a segment on the receive queue, and,
\* when the handshake completes, the awaiting coroutine up to its next await.
handshake_wait(task) ==
    /\ ~panicked
    /\ task.pc = "handshake_wait"
    /\ cxns[task.cxn].receive_queue # <<>>
    /\ LET c == task.cxn
           cxn == cxns[c]
           segment == Head(cxn.receive_queue)
           popped == [cxn EXCEPT !.receive_queue = Tail(@)]
       IN IF segment.rst
          THEN /\ cxns' = [cxns EXCEPT ![c] = popped]
               /\ tasks' = Resumed(task, HandshakeFailed(task, "ConnectionRefused"))
               /\ UNCHANGED events
          ELSE IF HandshakeAccepts(cxn, segment)
          THEN IF task.kind = "connect"
               THEN /\ cxns' = [cxns EXCEPT ![c] = AfterSynAck(popped, segment)]
                    /\ tasks' = Resumed(task, [task EXCEPT !.pc = "final_ack"])
                    /\ UNCHANGED events
               ELSE /\ cxns' = [cxns EXCEPT ![c] = incr_seq_num(popped)]
                    /\ events' = IncomingEmitted(events, cxn)
                    /\ tasks' = Resumed(task, [task EXCEPT !.pc = "main"])
          ELSE /\ cxns' = [cxns EXCEPT ![c] = popped]
               /\ UNCHANGED <<tasks, events>>
    /\ ret' = "none"
    /\ UNCHANGED <<connections, assigned_handles, unassigned_connection_handles,
                   unassigned_private_ports, open_ports, listened, ncalls, panicked>>

\* The retry budget of the current round elapses while the handshake waits.
handshake_timeout(task) ==
    /\ ~panicked
    /\ task.pc = "handshake_wait"
    /\ tasks' = Resumed(task, RetryHandshake(task))
    /\ ret' = "none"
    /\ UNCHANGED <<connections, cxns, assigned_handles, unassigned_connection_handles,
                   unassigned_private_ports, open_ports, events, listened, ncalls,
                   panicked>>

\* new_active_connection's cast of the final ACK, and connect's Ok branch.
final_ack(task) ==
    /\ ~panicked
    /\ task.kind = "connect" /\ task.pc = "final_ack"
    /\ \E arp_ok \in BOOLEAN :
          IF ~arp_ok
          THEN /\ tasks' = Resumed(task, [task EXCEPT !.pc = "close", !.error = "Timeout"])
               /\ UNCHANGED <<events, panicked>>
          ELSE IF task.cxnid \notin DOMAIN connections
          THEN /\ panicked' = TRUE
               /\ UNCHANGED <<events, tasks>>
          ELSE LET c == connections[task.cxnid] IN
               /\ events' = emit_event(events, Transmit(SegmentOf(cxns[task.cxn])))
               /\ tasks' = With(Resumed(task, Complete(task, "Ok", cxns[c].handle)),
                                pushed_to_background_queue(
                                    NewTask("established", "main", task.cxnid, c,
                                            NoSegment, "queue")))
               /\ UNCHANGED panicked
    /\ ret' = "none"
    /\ UNCHANGED <<connections, cxns, assigned_handles, unassigned_connection_handles,
                   unassigned_private_ports, open_ports, listened, ncalls>>

\* --------------------------------------- TcpPeerState::main_connection_loop
\* One iteration, from the top of the loop to its `yield None`, to the await
\* of the pure ACK's cast, or to the return on RST (after which
\* on_connection_established goes on to close_connection).
main_connection_loop(task) ==
    /\ ~panicked
    /\ task.pc = "main"
    /\ LET c == task.cxn
           cxn == cxns[c]
           queue == cxn.receive_queue
           r == FirstRst(queue)
       IN IF r > 0
          THEN /\ cxns' = [cxns EXCEPT ![c] =
                   [ReceiveAll(cxn, SubSeq(queue, 1, r - 1)) EXCEPT
                        !.receive_queue = SubSeq(queue, r + 1, Len(queue))]]
               /\ tasks' = Resumed(task, [task EXCEPT !.pc = "close",
                                                      !.error = "ConnectionAborted"])
          ELSE /\ cxns' = [cxns EXCEPT ![c] =
                   [ReceiveAll(cxn, queue) EXCEPT !.receive_queue = <<>>]]
               /\ \E expired \in BOOLEAN :
                     \* the delay can only have passed for an ACK owed since an
                     \* earlier iteration
                     /\ expired => task.ack_owed
                     /\ tasks' = Resumed(task, [task EXCEPT
                           !.ack_owed = @ \/ HasPayload(queue),
                           !.pc = IF expired THEN "pure_ack" ELSE "main"])
    /\ ret' = "none"
    /\ UNCHANGED <<connections, assigned_handles, unassigned_connection_handles,
                   unassigned_private_ports, open_ports, events, listened, ncalls,
                   panicked>>

\* The cast of the pure ACK and the rest of the iteration.
pure_ack(task) ==
    /\ ~panicked
    /\ task.pc = "pure_ack"
    /\ \E arp_ok \in BOOLEAN :
          IF arp_ok
          THEN /\ events' = emit_event(events, Transmit(SegmentOf(cxns[task.cxn])))
               /\ tasks' = Resumed(task, [task EXCEPT !.pc = "main", !.ack_owed = FALSE])
          ELSE /\ tasks' = Resumed(task, [task EXCEPT !.pc = "close", !.error = "Timeout"])
               /\ UNCHANGED events
    /\ ret' = "none"
    /\ UNCHANGED <<connections, cxns, assigned_handles, unassigned_connection_handles,
                   unassigned_private_ports, open_ports, listened, ncalls, panicked>>

\* ------------------------------------------ TcpPeerState::close_connection
\* notify is false when connect closes a failed active open, true when
\* on_connection_established closes after the main loop.
Notify(task) == task.kind # "connect"

\* The connection objects still referenced once the table is conns and the
\* coroutines are ts: an Rc is dropped with its last holder.
Referenced(conns, ts) ==
    {conns[k] : k \in DOMAIN conns}
    \cup {task.cxn : task \in {x \in BagToSet(ts) : x.pc \notin {"done", "close_cast"}}}

\* The events of close_connection with the `else` of `else if notify` lost.
CloseEventsNoElse(task, handle) ==
    LET first == IF task.error # "none" /\ Notify(task)
                 THEN emit_event(events, TcpConnectionClosed(handle, task.error))
                 ELSE events
    IN IF Notify(task) THEN emit_event(first, TcpConnectionClosed(handle, "none"))
       ELSE first

\* The events after close_connection's `if let Some(e) = error .. else if notify`.
CloseEvents(task, handle) ==
    IF task.error # "none"
    THEN IF Notify(task)
         THEN emit_event(events, TcpConnectionClosed(handle, task.error))
         ELSE events
    ELSE IF Notify(task)
         THEN emit_event(events, TcpConnectionClosed(handle, "none"))
         ELSE events

\* close_connection from its start to its await of the RST's cast.
close_connection(task) ==
    /\ ~panicked
    /\ task.pc = "close"
    /\ LET cxnid == task.cxnid IN
       IF cxnid \notin DOMAIN connections
       THEN /\ tasks' = Resumed(task,
                   Complete(task, IF task.kind = "connect" THEN task.error
                                  ELSE "ResourceNotFound", 0))
            /\ UNCHANGED <<connections, cxns, unassigned_private_ports, events>>
       ELSE LET cxn == cxns[connections[cxnid]] IN
            /\ connections' = Remove(connections, cxnid)
            /\ unassigned_private_ports' =
                   IF is_private(cxnid.local)
                   THEN Append(unassigned_private_ports, cxnid.local)
                   ELSE unassigned_private_ports
            /\ events' = CloseEvents(task, cxn.handle)
            /\ tasks' = Resumed(task,
                   IF task.error # "none"
                   THEN [task EXCEPT !.pc = "close_cast",
                                     !.seg = [SegmentOf(cxn) EXCEPT !.rst = TRUE]]
                   ELSE Complete(task, "Ok", 0))
            /\ cxns' = [h \in DOMAIN cxns \cap Referenced(connections', tasks') |-> cxns[h]]
    /\ ret' = "none"
    /\ UNCHANGED <<assigned_handles, unassigned_connection_handles, open_ports,
                   listened, ncalls, panicked>>

\* The cast of close_connection's RST, whose result is dropped, and the return
\* of the closing coroutine: connect returns Err(error), the others Ok.
close_cast(task) ==
    /\ ~panicked
    /\ task.pc = "close_cast"
    /\ \E arp_ok \in BOOLEAN :
          events' = IF arp_ok THEN emit_event(events, Transmit(task.seg)) ELSE events
    /\ tasks' = Resumed(task, IF task.kind = "connect"
                              THEN Complete(task, task.error, 0)
                              ELSE Complete(task, "Ok", 0))
    /\ ret' = "none"
    /\ UNCHANGED <<connections, cxns, assigned_handles, unassigned_connection_handles,
                   unassigned_private_ports, open_ports, listened, ncalls, panicked>>

\* ----------------------------------------------------- TcpPeerState::cast
\* The cast receive starts for the RST of a closed port.
cast(task) ==
    /\ ~panicked
    /\ task.kind = "rst" /\ task.pc = "cast"
    /\ \E arp_ok \in BOOLEAN :
          IF arp_ok
          THEN /\ events' = emit_event(events, Transmit(task.seg))
               /\ tasks' = Resumed(task, Complete(task, "Ok", 0))
          ELSE /\ tasks' = Resumed(task, Complete(task, "Timeout", 0))
               /\ UNCHANGED events
    /\ ret' = "none"
    /\ UNCHANGED <<connections, cxns, assigned_handles, unassigned_connection_handles,
                   unassigned_private_ports, open_ports, listened, ncalls, panicked>>

\* ------------------------------------------------ TcpPeer::advance_clock
\* background_queue is drained into background_work.
Drained(ts) ==
    LET moved(task) == IF task.bg = "queue" THEN [task EXCEPT !.bg = "work"] ELSE task
        Sum(task) == CopiesIn(task, ts)
                     + (IF task.bg = "work"
                        THEN CopiesIn([task EXCEPT !.bg = "queue"], ts) ELSE 0)
    IN [task \in {moved(x) : x \in BagToSet(ts)} |-> Sum(task)]

\* WhenAny::poll: a member that has completed with Ok is returned and removed.
WhenAnyPoll(ts) ==
    LET ok == {task \in BagToSet(ts) : task.bg = "work" /\ task.result = "Ok"}
    IN IF ok = {} THEN {ts} ELSE {Without(ts, task) : task \in ok}

advance_clock ==
    /\ ~panicked
    /\ tasks' \in WhenAnyPoll(Drained(tasks))
    /\ ret' = "none"
    /\ UNCHANGED <<connections, cxns, assigned_handles, unassigned_connection_handles,
                   unassigned_private_ports, open_ports, events, listened, ncalls,
                   panicked>>

\* -------------------------------------------------------------------- Next
Next ==
    \/ \E port \in Ports : listen(port) /\ UNCHANGED aux_vars
    \/ \E seg \in InboundSegments : receive(seg) /\ UNCHANGED aux_vars
    \/ \E remote \in RemoteEndpoints : connect(remote) /\ UNCHANGED aux_vars
    \/ advance_clock /\ UNCHANGED aux_vars
    \/ \E task \in Tasks : connect_start(task) /\ UNCHANGED aux_vars
    \/ \E task \in Tasks : new_active_connection(task) /\ UNCHANGED aux_vars
    \/ \E task \in Tasks : new_passive_connection(task) /\ UNCHANGED aux_vars
    \/ \E task \in Tasks : handshake(task) /\ UNCHANGED aux_vars
    \/ \E task \in Tasks : handshake_wait(task) /\ UNCHANGED aux_vars
    \/ \E task \in Tasks : handshake_timeout(task) /\ UNCHANGED aux_vars
    \/ \E task \in Tasks : final_ack(task) /\ UNCHANGED aux_vars
    \/ \E task \in Tasks : main_connection_loop(task) /\ UNCHANGED aux_vars
    \/ \E task \in Tasks : pure_ack(task) /\ UNCHANGED aux_vars
    \/ \E task \in Tasks : close_connection(task) /\ UNCHANGED aux_vars
    \/ \E task \in Tasks : close_cast(task) /\ UNCHANGED aux_vars
    \/ \E task \in Tasks : cast(task) /\ UNCHANGED aux_vars

Spec == Init /\ [][Next]_vars

\* ------------------------------------------------- an established connection
\* The peer after listen(2), a SYN from R1 to port 2 and the ACK of the SYN+ACK
\* (two calls of receive): the passive connection on the private port 2 is
\* established and its main loop is about to run.  order is the order of the
\* handle pool at construction.
SynFrom(port) == InboundSegment(port, "R1", Shape(TRUE, FALSE, FALSE, U32Zero, 0))
Opened(port, handle) ==
    set_remote_isn(TcpConnection_new([local |-> port, remote |-> "R1"], handle, U32Max),
                   SynFrom(port).seq)
PassiveTask(port, handle, pc) ==
    [NewTask("passive", "start", NoCxnId, 0, SynFrom(port), "work") EXCEPT
        !.pc = pc, !.cxnid = [local |-> port, remote |-> "R1"], !.cxn = handle]

Established(order) ==
    /\ connections = ([local |-> 2, remote |-> "R1"] :> order[1])
    /\ cxns = (order[1] :> incr_seq_num(Opened(2, order[1])))
    /\ assigned_handles = (order[1] :> [local |-> 2, remote |-> "R1"])
    /\ unassigned_connection_handles = Tail(order)
    /\ unassigned_private_ports \in Shuffles(PrivatePorts)
    /\ open_ports = {2}
    /\ tasks = SetToBag({PassiveTask(2, order[1], "main")})
    /\ events = SetToBag({Transmit(SynSegmentOf(Opened(2, order[1]))),
                          IncomingTcpConnection(order[1])})
    /\ listened = {2}
    /\ ret = "none"
    /\ panicked = FALSE

InitEstablished ==
    /\ AuxInit
    /\ \E order \in Shuffles(Handles) : Established(order)
    /\ ncalls = 0

SpecEstablished == InitEstablished /\ [][Next]_vars

\* ------------------------------------------------ the calls by handle
\* TcpPeerState::get_connection_given_handle: the connection object of the
\* handle, "ResourceNotFound" for a handle assigned_handles does not have,
\* "panic" when connections.get(cxnid).unwrap() finds no connection.
get_connection_given_handle(handle) ==
    IF handle \in DOMAIN assigned_handles
    THEN IF assigned_handles[handle] \in DOMAIN connections
         THEN "Ok"
         ELSE "panic"
    ELSE "ResourceNotFound"

\* A call by handle: the ? of the lookup, then what the connection answers.
\* The queues, the MSS and the RTO of a connection are not part of the state.
by_handle(handle, answers) ==
    /\ ~panicked
    /\ ncalls < MaxCalls
    /\ ncalls' = ncalls + 1
    /\ LET found == get_connection_given_handle(handle)
       IN /\ panicked' = (found = "panic")
          /\ IF found = "Ok" THEN ret' \in answers
             ELSE IF found = "panic" THEN ret' = "none"
             ELSE ret' = found
    /\ UNCHANGED <<connections, cxns, assigned_handles, unassigned_connection_handles,
                   unassigned_private_ports, open_ports, tasks, events, listened>>

\* TcpPeer::write, peek, read, get_mss, get_rto, get_connection_id
write(handle) == by_handle(handle, {"Ok"})
peek(handle) == by_handle(handle, {"Ok", "ResourceExhausted"})
read(handle) == by_handle(handle, {"Ok", "ResourceExhausted"})
get_mss(handle) == by_handle(handle, {"Ok"})
get_rto(handle) == by_handle(handle, {"Ok"})
get_connection_id(handle) == by_handle(handle, {"Ok"})

NextByHandle ==
    \/ Next
    \/ \E handle \in Handles : write(handle) /\ UNCHANGED aux_vars
    \/ \E handle \in Handles : peek(handle) /\ UNCHANGED aux_vars
    \/ \E handle \in Handles : read(handle) /\ UNCHANGED aux_vars
    \/ \E handle \in Handles : get_mss(handle) /\ UNCHANGED aux_vars
    \/ \E handle \in Handles : get_rto(handle) /\ UNCHANGED aux_vars
    \/ \E handle \in Handles : get_connection_id(handle) /\ UNCHANGED aux_vars

SpecByHandle == Init /\ [][NextByHandle]_vars

\* ------------------------------------------- a connect to a silent peer
\* The handshake of connect against the clock: ARP resolves, the peer never
\* answers.  Every coroutine that can run runs before the clock moves on.
\* options.tcp.handshake_timeout, in ticks.
HandshakeTimeout == 2
MaxNow == 8 * HandshakeTimeout

\* Retry::binary_exponential(timeout, retries): the wait allowed to a round.
RetryBudgetFlat(round) == HandshakeTimeout
RetryBudget(round) == HandshakeTimeout * (2 ^ round)

Last(q) == q[Len(q)]

\* The round of the handshake task waits in has used up its budget.
RoundExpired(task) ==
    now >= Last(syn_times[task.cxn]) + RetryBudget(task.round)

\* The handshake's cast of the SYN with the remote address resolved.
TimedHandshake(task) ==
    /\ task.kind = "connect"
    /\ handshake(task)
    /\ [task EXCEPT !.pc = "handshake_wait"] \in BagToSet(tasks')
    /\ syn_times' = [syn_times EXCEPT ![task.cxn] = Append(@, now)]
    /\ now' = now
    /\ UNCHANGED <<delay_vars, peer_vars>>

TimedHandshakeTimeout(task) ==
    /\ task.pc = "handshake_wait"
    /\ RoundExpired(task)
    /\ handshake_timeout(task)
    /\ UNCHANGED aux_vars

\* The caller's next advance_clock(now + 1): every coroutine is asleep.
Tick ==
    /\ ~panicked
    /\ now < MaxNow
    /\ \A task \in Tasks :
          \/ task.pc = "done"
          \/ task.pc = "handshake_wait" /\ ~RoundExpired(task)
    /\ now' = now + 1
    /\ UNCHANGED <<tcp_vars, syn_times, delay_vars, peer_vars>>

NextSilentPeer ==
    \/ \E remote \in RemoteEndpoints : connect(remote) /\ UNCHANGED aux_vars
    \/ \E task \in Tasks : connect_start(task) /\ UNCHANGED aux_vars
    \/ \E task \in Tasks : new_active_connection(task) /\ UNCHANGED aux_vars
    \/ \E task \in Tasks : TimedHandshake(task)
    \/ \E task \in Tasks : TimedHandshakeTimeout(task)
    \/ \E task \in Tasks : close_connection(task) /\ UNCHANGED aux_vars
    \/ \E task \in Tasks : close_cast(task) /\ UNCHANGED aux_vars
    \/ Tick

SpecSilentPeer == Init /\ [][NextSilentPeer]_vars

\* ------------------------------------------------------ the delayed ACK
\* The main loop of the established connection against the clock: the loop
\* runs once in every tick, and the cast of its pure ACK completes in the tick
\* that has started it.
\* options.tcp.trailing_ack_delay, in ticks.
TrailingAckDelay == 2

\* The check of the timer with >= for >.
AckTimerExpiredAtDelay(since, t) == since # <<>> /\ t - since[1] >= TrailingAckDelay

\* if let Some(timestamp) = ack_owed_since { if rt.now() - timestamp >
\* options.tcp.trailing_ack_delay { .. } }
AckTimerExpired(since, t) == since # <<>> /\ t - since[1] > TrailingAckDelay

\* The segments the established connection's peer sends after the handshake.
EstablishedSegments ==
    {seg \in InboundSegments : seg.lport = 2 /\ seg.remote = "R1" /\ ~seg.syn /\ ~seg.rst}

TimedMainLoop(task) ==
    /\ task.pc = "main" /\ task.cxn \notin ran
    /\ main_connection_loop(task)
    /\ LET h == task.cxn
           queue == cxns[h].receive_queue
           since == IF ack_owed_since[h] = <<>> /\ HasPayload(queue)
                    THEN <<now>> ELSE ack_owed_since[h]
       IN /\ ack_owed_since' = [ack_owed_since EXCEPT ![h] = since]
          /\ FirstRst(queue) = 0
             => ((\E after \in BagToSet(tasks') : after.cxn = h /\ after.pc = "pure_ack")
                 <=> AckTimerExpired(since, now))
          /\ payload_ticks' = [payload_ticks EXCEPT ![h] =
                                  IF HasPayload(queue) THEN Append(@, now) ELSE @]
          /\ ran' = ran \cup {h}
    /\ UNCHANGED <<clock_vars, ack_ticks, peer_vars>>

TimedPureAck(task) ==
    /\ task.pc = "pure_ack"
    /\ pure_ack(task)
    /\ LET h == task.cxn
           sent == \E after \in BagToSet(tasks') : after.cxn = h /\ after.pc = "main"
       IN /\ ack_owed_since' = [ack_owed_since EXCEPT ![h] = IF sent THEN <<>> ELSE @]
          /\ ack_ticks' = [ack_ticks EXCEPT ![h] = IF sent THEN Append(@, now) ELSE @]
    /\ UNCHANGED <<clock_vars, ran, payload_ticks, peer_vars>>

\* The caller's next advance_clock(now + 1): every main loop has yielded.
TickEstablished ==
    /\ ~panicked
    /\ now < MaxNow
    /\ \A task \in Tasks :
          /\ task.pc = "main" => task.cxn \in ran
          /\ task.pc # "pure_ack"
    /\ now' = now + 1
    /\ ran' = {}
    /\ UNCHANGED <<tcp_vars, syn_times, ack_owed_since, payload_ticks, ack_ticks,
                   peer_vars>>

NextDelayedAck ==
    \/ \E seg \in EstablishedSegments : receive(seg) /\ UNCHANGED aux_vars
    \/ \E task \in Tasks : TimedMainLoop(task)
    \/ \E task \in Tasks : TimedPureAck(task)
    \/ TickEstablished

SpecDelayedAck == InitEstablished /\ [][NextDelayedAck]_vars

\* ============================================================ Icmpv4Peer
\* The coroutines of ping and reply_to_ping run from their start to the await of
\* arp.query, and from there to their next suspension or their end.  The ARP
\* query resolves or fails (Timeout); yield_until!'s timeout may elapse whenever
\* its predicate does not hold.
PingIds == {1, 2}
EchoSeqNums == {0, 1}

IcmpTask(kind, id, seq_num) ==
    [kind |-> kind, pc |-> "query", id |-> id, seq_num |-> seq_num, result |-> "pending"]

IcmpTasks == BagToSet(icmp_tasks)
IcmpResumed(task, after) == (icmp_tasks (-) SetToBag({task})) (+) SetToBag({after})

\* The members of async_work.
async_work == {task \in IcmpTasks : task.kind = "reply"}

\* Icmpv4Peer::ping: generate_ping_id, generate_seq_num, start_coroutine.
icmp_ping(id) ==
    /\ ~icmp_panicked
    /\ BagCardinality(icmp_tasks) < MaxIcmpTasks /\ icmp_transmits < MaxIcmpTasks
    /\ ping_seq_num_counter' = SeqNumAfter(ping_seq_num_counter)
    /\ icmp_tasks' = icmp_tasks (+) SetToBag({IcmpTask("ping", id, ping_seq_num_counter)})
    /\ ping_calls' = ping_calls + 1
    /\ ping_log' = ping_log \cup {<<ping_calls, ping_seq_num_counter>>}
    /\ UNCHANGED <<outstanding_requests, icmp_transmits, icmp_panicked>>

\* Icmpv4Peer::receive of an EchoRequest: reply_to_ping.
icmp_receive_request(id, seq_num) ==
    /\ ~icmp_panicked
    /\ BagCardinality(icmp_tasks) < MaxIcmpTasks /\ icmp_transmits < MaxIcmpTasks
    /\ icmp_tasks' = icmp_tasks (+) SetToBag({IcmpTask("reply", id, seq_num)})
    /\ UNCHANGED <<outstanding_requests, seq_num_vars, icmp_transmits,
                   icmp_panicked>>

\* Icmpv4Peer::receive of an EchoReply.
icmp_receive_reply(id, seq_num) ==
    /\ ~icmp_panicked
    /\ outstanding_requests' = outstanding_requests \ {<<id, seq_num>>}
    /\ UNCHANGED <<icmp_tasks, seq_num_vars, icmp_transmits, icmp_panicked>>

\* r#await!(arp.query(dest_ipv4_addr), rt.now()).unwrap() on Err.
query_failed(task) ==
    /\ icmp_panicked' = TRUE
    /\ UNCHANGED icmp_tasks

\* The coroutine of ping from the end of the ARP query to yield_until!.
ping_query(task) ==
    /\ ~icmp_panicked
    /\ task.kind = "ping" /\ task.pc = "query"
    /\ \E arp_ok \in BOOLEAN :
          IF ~arp_ok
          THEN /\ query_failed(task)
               /\ UNCHANGED <<outstanding_requests, icmp_transmits>>
          ELSE /\ icmp_transmits' = icmp_transmits + 1
               /\ IF <<task.id, task.seq_num>> \in outstanding_requests
                  THEN /\ icmp_panicked' = TRUE
                       /\ UNCHANGED <<icmp_tasks, outstanding_requests>>
                  ELSE /\ outstanding_requests' =
                              outstanding_requests \cup {<<task.id, task.seq_num>>}
                       /\ icmp_tasks' = IcmpResumed(task, [task EXCEPT !.pc = "wait"])
                       /\ UNCHANGED icmp_panicked
    /\ UNCHANGED seq_num_vars

\* The end of ping's yield_until!: its key was removed (Ok) or the timeout has
\* elapsed.
ping_wait(task) ==
    /\ ~icmp_panicked
    /\ task.kind = "ping" /\ task.pc = "wait"
    /\ IF <<task.id, task.seq_num>> \notin outstanding_requests
       THEN icmp_tasks' = IcmpResumed(task, [task EXCEPT !.pc = "done", !.result = "Ok"])
       ELSE icmp_tasks' = IcmpResumed(task, [task EXCEPT !.pc = "done",
                                                         !.result = "Timeout"])
    /\ UNCHANGED <<outstanding_requests, seq_num_vars, icmp_transmits,
                   icmp_panicked>>

\* The coroutine of reply_to_ping from the end of the ARP query to its end.
reply_to_ping(task) ==
    /\ ~icmp_panicked
    /\ task.kind = "reply" /\ task.pc = "query"
    /\ \E arp_ok \in BOOLEAN :
          IF ~arp_ok
          THEN /\ query_failed(task)
               /\ UNCHANGED icmp_transmits
          ELSE /\ icmp_transmits' = icmp_transmits + 1
               /\ icmp_tasks' = IcmpResumed(task, [task EXCEPT !.pc = "done",
                                                                !.result = "Ok"])
               /\ UNCHANGED icmp_panicked
    /\ UNCHANGED <<outstanding_requests, seq_num_vars>>

\* Icmpv4Peer::advance_clock: async_work.poll(now) returns the first member
\* that has completed with Ok and removes it, or the last error when every
\* member has ended in an error; assert!(result.is_ok()).
icmp_advance_clock ==
    /\ ~icmp_panicked
    /\ LET ok == {task \in async_work : task.result = "Ok"}
       IN IF ok # {}
          THEN /\ \E task \in ok : icmp_tasks' = icmp_tasks (-) SetToBag({task})
               /\ UNCHANGED icmp_panicked
          ELSE IF async_work # {} /\ \A task \in async_work : task.pc = "done"
          THEN /\ icmp_panicked' = TRUE
               /\ UNCHANGED icmp_tasks
          ELSE UNCHANGED <<icmp_tasks, icmp_panicked>>
    /\ UNCHANGED <<outstanding_requests, seq_num_vars, icmp_transmits>>

not_icmp_vars == <<tcp_vars, clock_vars, delay_vars, coroutine_vars, arp_vars, ping_vars>>

NextIcmp ==
    \/ \E id \in PingIds : icmp_ping(id) /\ UNCHANGED not_icmp_vars
    \/ \E id \in PingIds, seq_num \in EchoSeqNums :
          icmp_receive_request(id, seq_num) /\ UNCHANGED not_icmp_vars
    \/ \E id \in PingIds, seq_num \in EchoSeqNums :
          icmp_receive_reply(id, seq_num) /\ UNCHANGED not_icmp_vars
    \/ \E task \in IcmpTasks : ping_query(task) /\ UNCHANGED not_icmp_vars
    \/ \E task \in IcmpTasks : ping_wait(task) /\ UNCHANGED not_icmp_vars
    \/ \E task \in IcmpTasks : reply_to_ping(task) /\ UNCHANGED not_icmp_vars
    \/ icmp_advance_clock /\ UNCHANGED not_icmp_vars

SpecIcmp == Init /\ [][NextIcmp]_vars

\* A new peer, and a peer whose counter is about to wrap: ping was called
\* 2^16 - 1 times and every call was answered.
PingCalls == {0, Half - 1}
InitSeqNum ==
    /\ TcpInit /\ ClockInit /\ DelayInit /\ CoroutineInit /\ ArpInit /\ PingInit
    /\ \E calls \in PingCalls : IcmpAfter(calls)

SpecSeqNum == InitSeqNum /\ [][NextIcmp]_vars

\* --------------------------------------------------- ping against the clock
\* Time is in ticks of the caller's advance_clock; every coroutine that is due
\* is resumed once in a tick.  The ARP query of a ping resolves in the resume
\* that begins it or in a later one.  A timeout option is <<>> for None, <<d>>
\* for Some(d).
DefaultPingTimeout == 5000
MaxPingNow == 3
MaxPings == 2
PingTimeouts == {<<>>, <<1>>, <<2>>}

\* timeout.unwrap_or_else(|| Duration::from_millis(5000))
timeout_or_default(timeout) == IF timeout = <<>> THEN DefaultPingTimeout ELSE timeout[1]

not_ping_vars == <<tcp_vars, syn_times, delay_vars, coroutine_vars, arp_vars>>

\* Icmpv4Peer::ping(dest_ipv4_addr, timeout)
TimedPing(id, timeout) ==
    /\ ping_calls < MaxPings
    /\ icmp_ping(id)
    /\ ping_timeout' = [ping_timeout EXCEPT
                           ![ping_seq_num_counter] = <<timeout_or_default(timeout)>>]
    /\ UNCHANGED <<now, ping_t0, ping_since, ping_duration, ping_ran, not_ping_vars>>

\* The first resume of the coroutine: let t0 = rt.now(), then arp.query.
TimedPingBegin(task) ==
    /\ ~icmp_panicked
    /\ task.kind = "ping" /\ task.pc = "query"
    /\ ping_t0[task.seq_num] = <<>>
    /\ ping_t0' = [ping_t0 EXCEPT ![task.seq_num] = <<now>>]
    /\ UNCHANGED <<now, icmp_vars, ping_timeout, ping_since, ping_duration, ping_ran,
                   not_ping_vars>>

\* The ARP query has ended: the echo request, and yield_until! begins.
TimedPingQuery(task) ==
    /\ ping_t0[task.seq_num] # <<>>
    /\ ping_query(task)
    /\ ping_since' = [ping_since EXCEPT ![task.seq_num] = <<now>>]
    /\ ping_ran' = ping_ran \cup {task.seq_num}
    /\ UNCHANGED <<now, ping_timeout, ping_t0, ping_duration, not_ping_vars>>

\* yield_until!'s timeout has elapsed.
PingTimedOut(seq_num) == now - ping_since[seq_num][1] >= ping_timeout[seq_num][1]

\* A resume of the coroutine in yield_until!: CoroutineOk(rt.now() - t0) when
\* the key has left outstanding_requests, Err(Timeout) when the timeout has
\* elapsed, yield None otherwise.
TimedPingWait(task) ==
    /\ ~icmp_panicked
    /\ task.kind = "ping" /\ task.pc = "wait"
    /\ task.seq_num \notin ping_ran
    /\ ping_ran' = ping_ran \cup {task.seq_num}
    /\ IF <<task.id, task.seq_num>> \notin outstanding_requests
       THEN /\ ping_wait(task)
            /\ ping_duration' = [ping_duration EXCEPT
                                    ![task.seq_num] = <<now - ping_t0[task.seq_num][1]>>]
       ELSE IF PingTimedOut(task.seq_num)
       THEN /\ ping_wait(task)
            /\ UNCHANGED ping_duration
       ELSE UNCHANGED <<icmp_vars, ping_duration>>
    /\ UNCHANGED <<now, ping_timeout, ping_t0, ping_since, not_ping_vars>>

\* Icmpv4Peer::receive of an EchoReply, between two ticks.
TimedReply(id, seq_num) ==
    /\ icmp_receive_reply(id, seq_num)
    /\ UNCHANGED <<now, ping_vars, not_ping_vars>>

\* The caller's next advance_clock(now + 1): every coroutine has been resumed.
TickPing ==
    /\ ~icmp_panicked
    /\ now < MaxPingNow
    /\ \A task \in IcmpTasks :
          \/ task.pc = "done"
          \/ task.pc = "wait" /\ task.seq_num \in ping_ran
          \/ task.pc = "query" /\ ping_t0[task.seq_num] # <<>>
    /\ now' = now + 1
    /\ ping_ran' = {}
    /\ UNCHANGED <<icmp_vars, ping_timeout, ping_t0, ping_since, ping_duration,
                   not_ping_vars>>

NextPing ==
    \/ \E id \in PingIds, timeout \in PingTimeouts : TimedPing(id, timeout)
    \/ \E task \in IcmpTasks : TimedPingBegin(task)
    \/ \E task \in IcmpTasks : TimedPingQuery(task)
    \/ \E task \in IcmpTasks : TimedPingWait(task)
    \/ \E id \in PingIds, seq_num \in EchoSeqNums : TimedReply(id, seq_num)
    \/ TickPing

SpecPing == Init /\ [][NextPing]_vars

\* ============================================================= Coroutine
\* Coroutine::resume runs the generator between setting the status to Active
\* and setting it to what the generator has yielded or returned, so a call is
\* two steps here: resume, then generator_yields or generator_completes.
\* Time is in nanoseconds.  A Duration option is <<>> for None, <<d>> for
\* Some(d).
MaxCoroutines == 2
MaxClock == 3
MaxDuration == 2

YieldValues == {<<>>} \cup {<<d>> : d \in 0..MaxDuration}
CoroutineIds == 1..MaxCoroutines
Clocks == 0..MaxClock

\* Coroutine::new(id, gen, now).  now is the argument of the call of resume that
\* runs the generator, when the time of AsleepUntil, result that of Completed.
Coroutine_new(t) == [status |-> "AsleepUntil", when |-> t, result |-> "none", now |-> 0]

\* What a call of resume on id returns ("running" until it does), what its
\* generator has yielded, and whether it has run the generator.
Call(id, value, yielded, generator_ran) ==
    [id |-> id, value |-> value, yielded |-> yielded, ran |-> generator_ran]

Active == {id \in DOMAIN coroutines : coroutines[id].status = "Active"}
co_panicked == co_ret.value = "panic"

\* Scheduler::start_coroutine
start_coroutine ==
    /\ ~co_panicked
    /\ Cardinality(DOMAIN coroutines) < MaxCoroutines
    /\ coroutines' = [id \in DOMAIN coroutines \cup {Cardinality(DOMAIN coroutines) + 1} |->
                         IF id \in DOMAIN coroutines THEN coroutines[id]
                         ELSE Coroutine_new(co_clock)]
    /\ UNCHANGED <<co_clock, co_ret, co_resumed>>

\* resume of a Completed coroutine that runs the generator once more.
resume_completed_again(id, t) ==
    /\ coroutines' = [coroutines EXCEPT ![id].status = "Active", ![id].now = t]
    /\ co_ret' = Call(id, "running", <<>>, TRUE)
    /\ co_resumed' = co_resumed \cup {id}

\* CoroutineStatus::Completed(_) => true
resume_completed(id, t) ==
    /\ co_ret' = Call(id, "true", <<>>, FALSE)
    /\ UNCHANGED <<coroutines, co_resumed>>

\* Coroutine::resume(now) up to the generator's resume.
resume(id, t) ==
    /\ ~co_panicked
    /\ LET co == coroutines[id]
       IN IF co.status = "Active"
          THEN /\ co_ret' = Call(id, "panic", <<>>, FALSE)
               /\ UNCHANGED <<coroutines, co_resumed>>
          ELSE IF co.status = "Completed"
          THEN resume_completed(id, t)
          ELSE IF t < co.when
          THEN /\ co_ret' = Call(id, "panic", <<>>, FALSE)
               /\ UNCHANGED <<coroutines, co_resumed>>
          ELSE /\ coroutines' = [coroutines EXCEPT ![id].status = "Active",
                                                   ![id].now = t]
               /\ co_ret' = Call(id, "running", <<>>, TRUE)
               /\ co_resumed' = co_resumed \cup {id}
    /\ UNCHANGED co_clock

\* The duration as the generator has yielded it.
duration_yielded(duration) == IF duration = <<>> THEN 0 ELSE duration[1]

\* The duration with zero left as it is.
duration_kept(duration) == duration_yielded(duration)

\* duration.unwrap_or(zero), and one nanosecond for zero.
duration_slept(duration) ==
    IF duration_yielded(duration) = 0 THEN 1 ELSE duration_yielded(duration)

\* GeneratorState::Yielded(duration)
generator_yields(id, duration) ==
    /\ ~co_panicked
    /\ coroutines[id].status = "Active"
    /\ coroutines' = [coroutines EXCEPT
           ![id].status = "AsleepUntil",
           ![id].when = coroutines[id].now + duration_slept(duration),
           ![id].now = 0]
    /\ co_ret' = Call(id, "false", duration, TRUE)
    /\ UNCHANGED <<co_clock, co_resumed>>

\* GeneratorState::Complete(result)
generator_completes(id, result) ==
    /\ ~co_panicked
    /\ coroutines[id].status = "Active"
    /\ coroutines' = [coroutines EXCEPT ![id].status = "Completed", ![id].result = result,
                                        ![id].when = 0, ![id].now = 0]
    /\ co_ret' = Call(id, "true", <<>>, TRUE)
    /\ UNCHANGED <<co_clock, co_resumed>>

\* A scheduler that resumes a coroutine while another one runs.
scheduled_nested(id, t) ==
    \/ coroutines[id].status = "Completed"
    \/ /\ t = co_clock
       /\ coroutines[id].status = "AsleepUntil" /\ coroutines[id].when <= co_clock

\* A scheduler that resumes a coroutine whether it is due or not.
scheduled_early(id, t) ==
    /\ Active = {}
    /\ \/ coroutines[id].status = "Completed"
       \/ t = co_clock /\ coroutines[id].status = "AsleepUntil"

\* Scheduler::advance_clock resumes, one after the other, the coroutines that
\* are due; the future of a Completed coroutine may be polled with any clock.
scheduled(id, t) ==
    /\ Active = {}
    /\ \/ coroutines[id].status = "Completed"
       \/ /\ t = co_clock
          /\ coroutines[id].status = "AsleepUntil" /\ coroutines[id].when <= co_clock

\* The caller's advance_clock with a later time.
co_advance_clock ==
    /\ ~co_panicked
    /\ Active = {}
    /\ co_clock < MaxClock
    /\ co_clock' = co_clock + 1
    /\ co_resumed' = {}
    /\ UNCHANGED <<coroutines, co_ret>>

not_coroutine_vars == <<tcp_vars, clock_vars, delay_vars, icmp_vars, arp_vars, ping_vars>>

NextCoroutine ==
    \/ start_coroutine /\ UNCHANGED not_coroutine_vars
    \/ \E id \in DOMAIN coroutines, t \in Clocks :
          scheduled(id, t) /\ resume(id, t) /\ UNCHANGED not_coroutine_vars
    \/ \E id \in DOMAIN coroutines, duration \in YieldValues :
          generator_yields(id, duration) /\ UNCHANGED not_coroutine_vars
    \/ \E id \in DOMAIN coroutines, result \in {"Ok", "Err"} :
          generator_completes(id, result) /\ UNCHANGED not_coroutine_vars
    \/ co_advance_clock /\ UNCHANGED not_coroutine_vars

SpecCoroutine == Init /\ [][NextCoroutine]_vars

\* ============================================================== ArpCache
\* The forward cache is a HashTtlCache: every entry has the time at which it
\* expires (<<>> for never); advance_clock moves the clock of the cache, and an
\* entry whose time has come is no longer live.  A ttl option is <<>> for
\* None, <<d>> for Some(d).
MaxArpClock == 3
DefaultTtl == 2
Ipv4Addrs == {"ip1", "ip2"}
MacAddresses == {"macA", "macB"}
Ttls == {<<>>, <<1>>}

\* The maps import is called with.
ArpMaps == UNION {[ips -> MacAddresses] : ips \in SUBSET Ipv4Addrs}

\* HashTtlCache: the entry of k has not expired.
Live(k) ==
    /\ k \in DOMAIN cache
    /\ IF cache[k].expiry = <<>> THEN TRUE ELSE cache[k].expiry[1] > arp_clock

Record(ipv4_addr, link_addr, expiry) ==
    [ipv4_addr |-> ipv4_addr, link_addr |-> link_addr, expiry |-> expiry]

\* The maps after cache.insert(ipv4_addr, record) and
\* rmap.insert(link_addr, ipv4_addr).
Inserted(maps, ipv4_addr, link_addr, expiry) ==
    [cache |-> Insert(maps.cache, ipv4_addr, Record(ipv4_addr, link_addr, expiry)),
     rmap |-> Insert(maps.rmap, link_addr, ipv4_addr)]

\* ArpCache::insert_with_ttl
arp_insert_with_ttl(ipv4_addr, link_addr, ttl) ==
    /\ ~arp_panicked
    /\ LET expiry == IF ttl = <<>> THEN <<>> ELSE <<arp_clock + ttl[1]>>
           after == Inserted([cache |-> cache, rmap |-> rmap], ipv4_addr, link_addr, expiry)
       IN cache' = after.cache /\ rmap' = after.rmap
    /\ arp_ret' = NoEvict
    /\ UNCHANGED <<arp_clock, arp_panicked>>

\* ArpCache::insert
arp_insert(ipv4_addr, link_addr) ==
    /\ ~arp_panicked
    /\ LET after == Inserted([cache |-> cache, rmap |-> rmap], ipv4_addr, link_addr,
                             <<arp_clock + DefaultTtl>>)
       IN cache' = after.cache /\ rmap' = after.rmap
    /\ arp_ret' = NoEvict
    /\ UNCHANGED <<arp_clock, arp_panicked>>

\* ArpCache::remove of an address the cache has
arp_remove(ipv4_addr) ==
    /\ ~arp_panicked
    /\ ipv4_addr \in DOMAIN cache
    /\ cache' = Remove(cache, ipv4_addr)
    /\ IF cache[ipv4_addr].link_addr \in DOMAIN rmap
       THEN /\ rmap' = Remove(rmap, cache[ipv4_addr].link_addr)
            /\ UNCHANGED arp_panicked
       ELSE /\ arp_panicked' = TRUE
            /\ UNCHANGED rmap
    /\ arp_ret' = NoEvict
    /\ UNCHANGED arp_clock

\* ArpCache::advance_clock
arp_advance_clock ==
    /\ ~arp_panicked
    /\ arp_clock < MaxArpClock
    /\ arp_clock' = arp_clock + 1
    /\ arp_ret' = NoEvict
    /\ UNCHANGED <<cache, rmap, arp_panicked>>

\* ArpCache::try_evict(count): the forward cache gives up count entries, or all
\* it has, the expired ones first.
arp_try_evict(count) ==
    /\ ~arp_panicked
    /\ \E evicted \in SUBSET DOMAIN cache :
          /\ Cardinality(evicted) = IF count < Cardinality(DOMAIN cache)
                                    THEN count ELSE Cardinality(DOMAIN cache)
          /\ \A k \in evicted, other \in DOMAIN cache \ evicted : Live(k) => Live(other)
          /\ cache' = [k \in DOMAIN cache \ evicted |-> cache[k]]
          /\ rmap' = [m \in DOMAIN rmap \ {cache[k].link_addr : k \in evicted} |-> rmap[m]]
          /\ arp_ret' = [count |-> count,
                         held |-> [k \in DOMAIN cache |-> cache[k].link_addr],
                         result |-> [k \in evicted |-> cache[k].link_addr]]
    /\ UNCHANGED <<arp_clock, arp_panicked>>

\* ArpCache::clear
arp_clear ==
    /\ ~arp_panicked
    /\ cache' = [k \in {} |-> 0]
    /\ rmap' = [k \in {} |-> 0]
    /\ arp_ret' = NoEvict
    /\ UNCHANGED <<arp_clock, arp_panicked>>

\* The maps after the inserts of import in the order ips.
RECURSIVE Imported(_, _, _)
Imported(maps, map, ips) ==
    IF ips = <<>> THEN maps
    ELSE Imported(Inserted(maps, Head(ips), map[Head(ips)], <<arp_clock + DefaultTtl>>),
                  map, Tail(ips))

\* ArpCache::import: clear, then insert in the order the HashMap iterates.
arp_import(map) ==
    /\ ~arp_panicked
    /\ \E ips \in Shuffles(DOMAIN map) :
          LET after == Imported([cache |-> [k \in {} |-> 0], rmap |-> [k \in {} |-> 0]],
                                map, ips)
          IN cache' = after.cache /\ rmap' = after.rmap
    /\ arp_ret' = NoEvict
    /\ UNCHANGED <<arp_clock, arp_panicked>>

not_arp_vars == <<tcp_vars, clock_vars, delay_vars, icmp_vars, coroutine_vars, ping_vars>>

NextArp ==
    \/ \E ipv4_addr \in Ipv4Addrs, link_addr \in MacAddresses, ttl \in Ttls :
          arp_insert_with_ttl(ipv4_addr, link_addr, ttl) /\ UNCHANGED not_arp_vars
    \/ \E ipv4_addr \in Ipv4Addrs, link_addr \in MacAddresses :
          arp_insert(ipv4_addr, link_addr) /\ UNCHANGED not_arp_vars
    \/ \E ipv4_addr \in Ipv4Addrs : arp_remove(ipv4_addr) /\ UNCHANGED not_arp_vars
    \/ arp_advance_clock /\ UNCHANGED not_arp_vars
    \/ \E count \in 0..(Cardinality(Ipv4Addrs) + 1) :
          arp_try_evict(count) /\ UNCHANGED not_arp_vars
    \/ arp_clear /\ UNCHANGED not_arp_vars
    \/ \E map \in ArpMaps : arp_import(map) /\ UNCHANGED not_arp_vars

SpecArp == Init /\ [][NextArp]_vars

\* ================================================================ claims
\* The coroutine records a step has added to the bag.
Arrived == {task \in BagToSet(tasks') : CopiesIn(task, tasks') > CopiesIn(task, tasks)}
\* A step of the coroutine task: its record leaves the bag, and not because
\* advance_clock has moved its future from background_queue to background_work.
Resumes(task) ==
    /\ CopiesIn(task, tasks') < CopiesIn(task, tasks)
    /\ [task EXCEPT !.bg = "work"] \notin Arrived

\* How many times x is in the pool.
InPool(pool, x) == Cardinality({i \in 1..Len(pool) : pool[i] = x})

\* C1: in every reachable state a handle is a key of assigned_handles if and
\* only if the connection id it maps to is a key of connections, and every
\* connection of the table has its handle in assigned_handles.
C1_HandleBijection ==
    /\ \A h \in DOMAIN assigned_handles : assigned_handles[h] \in DOMAIN connections
    /\ \A k \in DOMAIN connections :
          /\ cxns[connections[k]].handle \in DOMAIN assigned_handles
          /\ assigned_handles[cxns[connections[k]].handle] = k

\* C2: in every reachable state a port is in open_ports if and only if listen
\* has succeeded on it or a connection of the table has it as its local port.
C2_OpenPortsIff ==
    \A p \in Ports \cup PrivatePorts :
        p \in open_ports <=>
            (p \in listened \/ \E k \in DOMAIN connections : k.local = p)

\* A private port is assigned while a connect that acquired it has not yet
\* closed, or while a connection of the table has it as its local port.
PortAssigned(p) ==
    \/ \E task \in Tasks :
          /\ task.kind = "connect" /\ task.cxnid.local = p
          /\ task.pc \in {"new_active_connection", "handshake", "handshake_wait",
                          "final_ack", "close"}
    \/ \E k \in DOMAIN connections : k.local = p

\* C3: between resumes every handle is in exactly one of
\* unassigned_connection_handles and assigned_handles, and every private port
\* is either exactly once in unassigned_private_ports or assigned, never both,
\* never neither, never twice in the pool.
C3_ExactlyOnePool ==
    /\ \A h \in Handles :
          \/ InPool(unassigned_connection_handles, h) = 1 /\ h \notin DOMAIN assigned_handles
          \/ InPool(unassigned_connection_handles, h) = 0 /\ h \in DOMAIN assigned_handles
    /\ \A p \in PrivatePorts :
          \/ InPool(unassigned_private_ports, p) = 1 /\ ~PortAssigned(p)
          \/ InPool(unassigned_private_ports, p) = 0 /\ PortAssigned(p)

C4_Step ==
    /\ \A task \in Tasks :
          (/\ task.kind = "connect" /\ task.pc = "start" /\ Resumes(task)
           /\ unassigned_private_ports = <<>>)
          => Complete(task, "ResourceExhausted", 0) \in Arrived
    /\ \A task \in Tasks :
          (/\ task.kind = "passive" /\ task.pc = "start" /\ Resumes(task)
           /\ unassigned_connection_handles = <<>>)
          => Complete(task, "ResourceExhausted", 0) \in Arrived
    /\ \A k \in DOMAIN connections \ DOMAIN connections' :
          /\ InPool(unassigned_connection_handles', connections[k]) = 1
          /\ is_private(k.local) => InPool(unassigned_private_ports', k.local) >= 1

\* C4: an allocation from an empty pool fails with ResourceExhausted, and when
\* a connection is closed its handle (and its private port) is back in its
\* pool, so that the next allocation succeeds.
C4_ReleaseRefillsPools == [][C4_Step]_vars

\* C5: a connect that fails after it has acquired a private port, whatever
\* the cause, runs close_connection before its future completes, and when
\* close_connection has run the port is in unassigned_private_ports and the
\* 4-tuple is not in the connection table.
C5_ConnectErrorReleasesPort ==
    [][\A task \in Tasks :
          (task.kind = "connect" /\ task.pc = "close" /\ Resumes(task))
          => /\ InPool(unassigned_private_ports', task.cxnid.local) >= 1
             /\ task.cxnid \notin DOMAIN connections']_vars

\* C6: after listen(p) has succeeded, every new_passive_connection started for
\* a SYN to p adds, when it runs, exactly one entry to the connection table,
\* for the segment's 4-tuple.
C6_OnePassiveConnectionPerSyn ==
    [][\A task \in Tasks :
          (/\ task.kind = "passive" /\ task.pc = "start"
           /\ task.seg.lport \in listened
           /\ new_passive_connection(task))
          => LET cxnid == [local |-> task.seg.lport, remote |-> task.seg.remote]
             IN /\ ~panicked'
                /\ DOMAIN connections' = DOMAIN connections \cup {cxnid}
                /\ cxnid \notin DOMAIN connections]_vars

Errors == {"ConnectionAborted", "ConnectionRefused", "Timeout", "ResourceExhausted",
           "ResourceNotFound"}

ClosedEvents(bag, h) ==
    {e \in BagToSet(bag) : e.type = "TcpConnectionClosed" /\ e.handle = h}

C7_AtMostOne ==
    \A h \in Handles :
        /\ Cardinality(ClosedEvents(events, h)) <= 1
        /\ \A e \in ClosedEvents(events, h) : CopiesIn(e, events) = 1

C7_Step ==
    /\ \A task \in Tasks :
          (/\ task.pc = "close" /\ Notify(task) /\ task.error # "none"
           /\ task.cxnid \in DOMAIN connections /\ Resumes(task))
          => /\ events' = events (+) SetToBag({TcpConnectionClosed(
                              cxns[connections[task.cxnid]].handle, task.error)})
             /\ task.cxnid \notin DOMAIN connections'
    /\ \A task \in Tasks :
          (task.pc = "close_cast" /\ Resumes(task))
          => \A h \in Handles : \A e \in ClosedEvents(events', h) :
                 CopiesIn(e, events') = CopiesIn(e, events)

\* C7: close_connection(id, Some(e), notify = true) of a connection that is in
\* the table emits exactly one TcpConnectionClosed{handle, Some(e)} for the
\* connection's handle and leaves the 4-tuple absent from connections; over a
\* whole run at most one TcpConnectionClosed is emitted per connection.
C7_SingleClosedEvent == []C7_AtMostOne /\ [][C7_Step]_vars

\* A notifying close with an error has run: its event is there, its connection
\* is not.
C7_Witness ==
    \E h \in Handles : \E e \in Errors :
        /\ Emitted(TcpConnectionClosed(h, e)) = 1
        /\ h \in DOMAIN assigned_handles
        /\ assigned_handles[h] \notin DOMAIN connections

\* a + n modulo 2^32, by cases on the carry.
U32Sum(a, n) ==
    LET low == a[2] + n
    IN IF low < Half THEN <<a[1], low>>
       ELSE <<IF a[1] = Half - 1 THEN 0 ELSE a[1] + 1, low - Half>>

ExpectedRst(seg) ==
    [lport |-> seg.lport, remote |-> seg.remote, syn |-> FALSE, ack |-> TRUE,
     rst |-> TRUE, seq |-> U32Zero,
     acknum |-> U32Sum(U32Sum(seg.seq, seg.len), IF seg.syn THEN 1 ELSE 0),
     len |-> 0]

C8_Step ==
    /\ \A seg \in InboundSegments :
          (seg.remote # Broadcast /\ seg.lport \notin open_ports /\ receive(seg))
          => /\ tasks' = tasks (+) SetToBag({NewTask("rst", "cast", NoCxnId, 0,
                                                     ExpectedRst(seg), "work")})
             /\ ret' = "Ok"
             /\ UNCHANGED <<connections, cxns, assigned_handles, open_ports,
                            unassigned_connection_handles, unassigned_private_ports,
                            events>>
    /\ \A task \in Tasks :
          (task.kind = "rst" /\ task.pc = "cast" /\ Resumes(task))
          => \/ /\ events' = events (+) SetToBag({Transmit(task.seg)})
                /\ Complete(task, "Ok", 0) \in Arrived
             \/ /\ events' = events
                /\ Complete(task, "Timeout", 0) \in Arrived

\* C8: receive of a well-formed segment to a port that is not open queues
\* exactly one cast of a RST to the sender with ack_num = seq + payload length
\* (+ 1 if SYN), leaves connections, assigned_handles, open_ports and both pools
\* as they are, and the cast transmits that RST once ARP resolves.
C8_RstForClosedPort == [][C8_Step]_vars

\* The RST for a SYN to a closed port has been transmitted: its ack_num has
\* wrapped to 0 from the SYN's sequence number 2^32 - 1.
C8_Witness ==
    /\ \E e \in BagToSet(events) :
          /\ e.type = "Transmit" /\ e.seg.rst /\ e.seg.ack
          /\ e.seg.lport = 1 /\ e.seg.remote = "R1"
          /\ e.seg.acknum = U32Zero
    /\ 1 \notin open_ports
    /\ \E task \in Tasks : task.kind = "rst" /\ task.result = "Ok"
                           /\ task.seg.acknum = U32Zero

\* C9: a coroutine whose handshake has failed (ConnectionRefused, Timeout)
\* does not complete before close_connection has removed the connection's
\* 4-tuple from the connection table, on the active and the passive side.
C9_HandshakeFailureCloses ==
    [][/\ \A task \in Tasks :
             (task.pc \in {"handshake", "handshake_wait"} /\ Resumes(task))
             => \A after \in Arrived :
                    (after.cxn = task.cxn /\ after.pc = "done")
                    => after.cxnid \notin DOMAIN connections'
       /\ \A task \in Tasks :
             (/\ task.kind = "connect" /\ task.pc = "close"
              /\ task.error \in {"ConnectionRefused", "Timeout"} /\ Resumes(task))
             => task.cxnid \notin DOMAIN connections']_vars

C10_Step ==
    /\ \A task \in Tasks :
          (/\ task.pc = "main" /\ Resumes(task)
           /\ FirstRst(cxns[task.cxn].receive_queue) > 0)
          => LET queue == cxns[task.cxn].receive_queue
                 r == FirstRst(queue)
             IN /\ [task EXCEPT !.pc = "close", !.error = "ConnectionAborted"] \in Arrived
                /\ cxns'[task.cxn].delivered = cxns[task.cxn].delivered + (r - 1)
                /\ cxns'[task.cxn].receive_queue = SubSeq(queue, r + 1, Len(queue))
    /\ \A task \in Tasks :
          (task.pc = "close" /\ task.error = "ConnectionAborted" /\ Resumes(task))
          => /\ events' = events (+) SetToBag({TcpConnectionClosed(
                              cxns[task.cxn].handle, "ConnectionAborted")})
             /\ task.cxnid \notin DOMAIN connections'
             /\ cxns[task.cxn].handle \notin {connections'[k] : k \in DOMAIN connections'}

\* C10: when the main loop of an established connection drains a RST it ends
\* with ConnectionAborted without processing the segments queued behind the
\* RST, the connection is then removed from the connection table, and exactly
\* one TcpConnectionClosed{handle, Some(ConnectionAborted)} is emitted.
C10_RstAbortsConnection ==
    /\ [][C10_Step]_vars
    /\ [](\A h \in Handles : Emitted(TcpConnectionClosed(h, "ConnectionAborted")) <= 1)

\* The ACK of an active open for local ISN x and remote ISN y.
C11_Ack(cxnid, x, y) ==
    [lport |-> cxnid.local, remote |-> cxnid.remote, syn |-> FALSE, ack |-> TRUE,
     rst |-> FALSE, seq |-> U32Sum(x, 1), acknum |-> U32Sum(y, 1), len |-> 0]

C11_Step ==
    \* the SYN+ACK with seq = Y and ack = X + 1 is taken off the queue, unless
    \* the handshake's round ends in Timeout before the coroutine runs
    /\ \A task \in Tasks :
          (/\ task.kind = "connect" /\ task.pc = "handshake_wait" /\ Resumes(task)
           /\ cxns[task.cxn].receive_queue # <<>>
           /\ LET s == Head(cxns[task.cxn].receive_queue)
              IN s.syn /\ s.ack /\ ~s.rst
                 /\ s.acknum = U32Sum(cxns[task.cxn].local_isn, 1))
          => \/ RetryHandshake(task) \in Arrived   \* the round timed out first
             \/ /\ [task EXCEPT !.pc = "final_ack"] \in Arrived
                /\ SegmentOf(cxns'[task.cxn]) =
                       C11_Ack(task.cxnid, cxns[task.cxn].local_isn,
                               Head(cxns[task.cxn].receive_queue).seq)
    \* the future resolves in the step that has emitted the ACK, to the handle
    \* registered for the 4-tuple
    /\ \A task \in Arrived :
          (task.kind = "connect" /\ task.pc = "done" /\ task.result = "Ok")
          => /\ events' = events (+) SetToBag({Transmit(SegmentOf(cxns[task.cxn]))})
             /\ task.value \in DOMAIN assigned_handles
             /\ assigned_handles[task.value] = task.cxnid
             /\ connections[task.cxnid] = task.value

\* C11: in an active open with local ISN X, when the SYN+ACK with seq = Y and
\* ack = X + 1 is taken, the ACK to send has seq = X + 1 and ack = Y + 1; the
\* connect future resolves to a handle only with that ACK emitted as a
\* Transmit, and the handle is the one assigned_handles maps to the 4-tuple.
C11_ActiveOpenAck ==
    /\ [][C11_Step]_vars
    /\ [](\A task \in Tasks :
            (task.kind = "connect" /\ task.result = "Ok")
            => Emitted(Transmit(C11_Ack(task.cxnid, U32Max, U32Max))) >= 1)

\* A connect has resolved to its handle after the ACK with seq = X + 1 = 0 and
\* ack = Y + 1 = 0 (both ISNs are 2^32 - 1).
C11_Witness ==
    \E task \in Tasks :
        /\ task.kind = "connect" /\ task.result = "Ok" /\ task.value \in Handles
        /\ Emitted(Transmit(C11_Ack(task.cxnid, U32Max, U32Max))) = 1
        /\ C11_Ack(task.cxnid, U32Max, U32Max).seq = U32Zero

C12_Step ==
    \* an IncomingTcpConnection(h) is emitted at most once, before any
    \* TcpConnectionClosed of h, by the passive coroutine of h whose handshake
    \* has just taken the ACK of its SYN+ACK
    /\ \A h \in Handles :
          Emitted(IncomingTcpConnection(h))' > Emitted(IncomingTcpConnection(h))
          => /\ Emitted(IncomingTcpConnection(h)) = 0
             /\ Emitted(IncomingTcpConnection(h))' = 1
             /\ ClosedEvents(events', h) = {}
             /\ \E task \in Tasks :
                   /\ task.kind = "passive" /\ task.pc = "handshake_wait"
                   /\ task.cxn = h /\ Resumes(task)
                   /\ cxns[h].receive_queue # <<>>
                   /\ HandshakeAccepts(cxns[h], Head(cxns[h].receive_queue))
    \* every passive handshake that succeeds emits it
    /\ \A task \in Tasks :
          (/\ task.kind = "passive" /\ task.pc = "handshake_wait" /\ Resumes(task)
           /\ [task EXCEPT !.pc = "main"] \in Arrived)
          => Emitted(IncomingTcpConnection(task.cxn))' =
                 Emitted(IncomingTcpConnection(task.cxn)) + 1

\* C12: IncomingTcpConnection(handle) is emitted exactly once for every
\* passively opened connection whose handshake succeeds, before any
\* TcpConnectionClosed of that handle, and never for a connection opened by
\* connect nor for a passive connection whose handshake has not succeeded.
C12_IncomingOncePerPassive ==
    /\ [][C12_Step]_vars
    /\ [](\A task \in Tasks :
            /\ (task.kind \in {"connect", "established"} /\ task.cxn \in Handles)
               => Emitted(IncomingTcpConnection(task.cxn)) = 0
            /\ (task.kind = "passive" /\ task.cxn \in Handles
                /\ task.pc \in {"handshake", "handshake_wait"})
               => Emitted(IncomingTcpConnection(task.cxn)) = 0
            /\ (task.kind = "passive"
                /\ task.pc \in {"main", "pure_ack", "close", "close_cast"})
               => Emitted(IncomingTcpConnection(task.cxn)) = 1)

\* A passive connection was announced once and closed afterwards.
C12_Witness ==
    \E task \in Tasks :
        /\ task.kind = "passive" /\ task.pc = "done" /\ task.cxn \in Handles
        /\ Emitted(IncomingTcpConnection(task.cxn)) = 1
        /\ ClosedEvents(events, task.cxn) # {}

\* The number of SYNs transmitted, and of SYNs the handshakes have timed.
C13_SynsEmitted ==
    Cardinality(UNION {{<<e, i>> : i \in 1..CopiesIn(e, events)} :
                           e \in {t \in BagToSet(events) : t.type = "Transmit" /\ t.seg.syn}})
C13_SynsTimed ==
    Cardinality(UNION {{<<h, i>> : i \in 1..Len(syn_times[h])} : h \in Handles})

C13_Step ==
    \A task \in Arrived :
        (task.kind = "connect" /\ task.pc = "done" /\ task.result = "Timeout")
        => \E t0 \in 0..MaxNow :
              /\ syn_times[task.cxn] =
                     <<t0, t0 + HandshakeTimeout, t0 + 3 * HandshakeTimeout>>
              /\ now = t0 + 7 * HandshakeTimeout

\* C13: with handshake_timeout = T and handshake_retries = 2, a connect at t0
\* to a peer that never answers (ARP resolved) sends its SYN at t0, t0 + T and
\* t0 + 3T and its future completes with Timeout at t0 + 7T; no
\* IncomingTcpConnection and no TcpConnectionClosed is emitted.
C13_HandshakeBackoff ==
    /\ [][C13_Step]_vars
    /\ [](\A e \in BagToSet(events) : e.type = "Transmit")
    /\ [](C13_SynsEmitted = C13_SynsTimed)

\* The connect called at 0 has sent its SYN at 0, T and 3T and has completed
\* with Timeout at 7T.
C13_Witness ==
    \E task \in Tasks :
        /\ task.kind = "connect" /\ task.pc = "done" /\ task.result = "Timeout"
        /\ syn_times[task.cxn] = <<0, HandshakeTimeout, 3 * HandshakeTimeout>>
        /\ now = 7 * HandshakeTimeout
        /\ HandshakeRetries = 2

\* The pure ACKs of connection h among the events.
C14_PureAcks(h) ==
    Cardinality(UNION {{<<e, i>> : i \in 1..CopiesIn(e, events)} :
                           e \in {t \in BagToSet(events) :
                                     /\ t.type = "Transmit" /\ ~t.seg.syn /\ ~t.seg.rst
                                     /\ t.seg.lport = assigned_handles[h].local}})

\* The main loop of h is still running.
C14_Running(h) ==
    \E task \in Tasks : task.cxn = h /\ task.pc \in {"main", "pure_ack"}

\* The loop of h has done its check of the timer in tick t.
C14_Checked(h, t) ==
    \/ now > t
    \/ now = t /\ h \in ran /\ \A task \in Tasks : task.cxn = h => task.pc = "main"

\* C14: a payload drained at t0 with no ACK owed starts the timer; no pure ACK
\* is sent in a tick with now - t0 <= trailing_ack_delay; in the first tick
\* with now - t0 > trailing_ack_delay exactly one pure ACK is sent and
\* ack_owed_since is cleared; no pure ACK follows until a new payload is
\* drained.
C14_DelayedAck ==
    \A h \in DOMAIN assigned_handles :
        LET acks == ack_ticks[h]
            payloads == payload_ticks[h]
        IN /\ C14_PureAcks(h) = Len(acks)
           \* every pure ACK is sent delay + 1 ticks after a payload that had
           \* no ACK owed before, and there is one ACK a tick at most
           /\ \A i \in 1..Len(acks) :
                 /\ \E j \in 1..Len(payloads) :
                       /\ payloads[j] + TrailingAckDelay + 1 = acks[i]
                       /\ i > 1 => acks[i - 1] < payloads[j]
                 /\ i > 1 => acks[i - 1] < acks[i]
           \* every payload is acknowledged by then
           /\ \A j \in 1..Len(payloads) :
                 (C14_Running(h) /\ C14_Checked(h, payloads[j] + TrailingAckDelay + 1))
                 => \E i \in 1..Len(acks) :
                       acks[i] \in payloads[j]..(payloads[j] + TrailingAckDelay + 1)
           \* ack_owed_since is Some(t0) exactly while a payload drained at t0
           \* has no ACK
           /\ C14_Running(h)
              => \/ /\ ack_owed_since[h] = <<>>
                    /\ \A j \in 1..Len(payloads) :
                          \E i \in 1..Len(acks) : acks[i] >= payloads[j]
                 \/ /\ ack_owed_since[h] # <<>>
                    /\ \E j \in 1..Len(payloads) :
                          /\ payloads[j] = ack_owed_since[h][1]
                          /\ \A i \in 1..Len(acks) : acks[i] < payloads[j]
                          /\ now - payloads[j] <= TrailingAckDelay + 1

\* A payload drained in tick t0 has had its pure ACK in tick t0 + delay + 1,
\* after a second payload was drained with the ACK already owed.
C14_Witness ==
    \E h \in DOMAIN assigned_handles :
        /\ Len(payload_ticks[h]) >= 2 /\ Len(ack_ticks[h]) = 1
        /\ ack_ticks[h][1] = payload_ticks[h][1] + TrailingAckDelay + 1
        /\ payload_ticks[h][2] \in (payload_ticks[h][1] + 1)..ack_ticks[h][1]
        /\ ack_owed_since[h] = <<>>
        /\ C14_PureAcks(h) = 1

C15_Step ==
    \* a coroutine found in background_work was moved there from the queue by
    \* advance_clock, or is an earlier member that has taken a step
    /\ \A task \in Arrived :
          task.bg = "work"
          => \/ /\ [task EXCEPT !.bg = "queue"] \in Tasks
                /\ \A after \in BagToSet(tasks') : after.bg # "queue"
             \/ \E before \in Tasks : before.bg = "work" /\ Resumes(before)
    \* the drain leaves the queue empty
    /\ (\E task \in Tasks : task.bg = "queue" /\ CopiesIn(task, tasks') < CopiesIn(task, tasks))
       => \A after \in BagToSet(tasks') : after.bg # "queue"

\* C15: every new background future (the cast of a RST, new_passive_connection,
\* on_connection_established) is first put on background_queue; background_work
\* grows only when advance_clock drains the queue into it, which leaves the
\* queue empty; no operation adds to background_work directly.
C15_QueueBeforeWork == [][C15_Step]_vars

\* The step is a call of receive that has started the coroutine task.
C15_StartedByReceive(task) ==
    /\ ncalls' = ncalls + 1
    /\ \/ task.kind = "passive" /\ task.pc = "start"
       \/ task.kind = "rst" /\ task.pc = "cast"
    /\ tasks' = With(tasks, task)

C15_AmendedStep ==
    \* background_work grows by the drain of advance_clock and by receive
    /\ \A task \in Arrived :
          task.bg = "work"
          => \/ /\ [task EXCEPT !.bg = "queue"] \in Tasks
                /\ \A after \in BagToSet(tasks') : after.bg # "queue"
             \/ \E before \in Tasks : before.bg = "work" /\ Resumes(before)
             \/ C15_StartedByReceive(task)
    \* background_queue grows by connect's on_connection_established only
    /\ \A task \in Arrived :
          task.bg = "queue"
          => /\ task.kind = "established"
             /\ \E before \in Tasks :
                   /\ Resumes(before)
                   /\ \/ before.kind = "connect" /\ before.pc = "final_ack"
                      \/ before.bg = "queue"
    \* the drain leaves the queue empty
    /\ (\E task \in Tasks : task.bg = "queue" /\ [task EXCEPT !.bg = "work"] \in Arrived)
       => \A after \in BagToSet(tasks') : after.bg # "queue"

\* C15 (amended): a future started by a coroutine (connect's
\* on_connection_established) is put on background_queue, and advance_clock
\* drains the whole queue into background_work before it polls; the futures
\* receive starts (new_passive_connection, the cast of a RST) are added to
\* background_work directly.
C15_QueueFromCoroutinesOnly == [][C15_AmendedStep]_vars

\* background_work holds a coroutine that came through the queue and one that
\* receive has added directly.
C15_Witness ==
    /\ \E task \in Tasks : task.kind = "established" /\ task.bg = "work"
    /\ \E task \in Tasks : task.kind \in {"passive", "rst"} /\ task.bg = "work"
    /\ \A task \in Tasks : task.bg # "queue"

\* C16: a background coroutine that ends in an error (an ARP query that times
\* out inside an ICMP echo reply or a ping) never drives the engine into a
\* panic: advance_clock of the ICMPv4 peer returns normally.
C16_BackgroundErrorsSurvive == ~icmp_panicked

C18_Step ==
    \A id \in DOMAIN coroutines :
        \* the resume of id returns false: its generator has yielded
        (co_ret = Call(id, "running", <<>>, TRUE) /\ co_ret'.value = "false")
        => LET duration == co_ret'.yielded
           IN /\ co_ret'.id = id
              /\ coroutines'[id].status = "AsleepUntil"
              /\ (duration = <<>> \/ duration = <<0>>)
                 => coroutines'[id].when = coroutines[id].now + 1
              /\ (duration # <<>> /\ duration # <<0>>)
                 => coroutines'[id].when = coroutines[id].now + duration[1]

\* C18: a coroutine resumed at now that yields None or a zero Duration is
\* AsleepUntil(now + 1ns) afterwards; one that yields a positive d is
\* AsleepUntil(now + d); no coroutine is Active when resume has returned.
C18_YieldSleeps ==
    /\ [][C18_Step]_vars
    /\ [](co_ret.value \in {"true", "false"} => Active = {})

\* A coroutine resumed at the current clock has yielded None and sleeps for a
\* nanosecond; another one sleeps for two.
C18_Witness ==
    \E id \in DOMAIN coroutines, other \in DOMAIN coroutines :
        /\ co_ret = Call(id, "false", <<>>, TRUE)
        /\ coroutines[id].status = "AsleepUntil"
        /\ coroutines[id].when = co_clock + 1
        /\ coroutines[other].status = "AsleepUntil"
        /\ coroutines[other].when = co_clock + 2

C19_Step ==
    \A id \in DOMAIN coroutines :
        coroutines[id].status = "Completed"
        => /\ coroutines'[id] = coroutines[id]
           /\ (co_ret' # co_ret /\ co_ret'.id = id) => ~co_ret'.ran

\* C19: Completed is terminal: every resume of a Completed coroutine, with any
\* clock value, returns true without running the generator and leaves the
\* status and the result as they are.
C19_CompletedTerminal ==
    /\ [][C19_Step]_vars
    /\ [](\A id \in DOMAIN coroutines :
            (coroutines[id].status = "Completed" /\ co_ret.id = id)
            => co_ret.value = "true")

\* A Completed coroutine was resumed after the clock had moved on; the call
\* has returned true and has not run the generator.
C19_Witness ==
    \E id \in DOMAIN coroutines :
        /\ coroutines[id].status = "Completed" /\ coroutines[id].result = "Err"
        /\ co_clock > 0
        /\ co_ret = Call(id, "true", <<>>, FALSE)

\* C20: after any sequence of insert, insert_with_ttl, remove, advance_clock,
\* try_evict, clear and import, rmap[cache[k].mac] = k for every IPv4 address k
\* in the forward cache, also after an address was inserted again with another
\* MAC and after two addresses were inserted with the same MAC.
C20_ReverseIndexConsistent ==
    ~arp_panicked
    => \A k \in Ipv4Addrs :
          Live(k) => /\ cache[k].link_addr \in DOMAIN rmap
                     /\ rmap[cache[k].link_addr] = k

\* C21: after any sequence of ARP cache operations a MAC is a key of rmap if
\* and only if some live forward record carries that MAC, so get_ipv4_addr
\* never returns an address whose forward entry has expired, been evicted,
\* been removed or been overwritten with another MAC.
C21_MembershipAgrees ==
    ~arp_panicked
    => \A link_addr \in MacAddresses :
          link_addr \in DOMAIN rmap
          <=> \E k \in Ipv4Addrs : Live(k) /\ cache[k].link_addr = link_addr

\* C22: when try_evict(count) with count greater than the number n of entries
\* of the cache has returned, the map it has returned holds all n (ipv4, mac)
\* entries, and the forward cache and rmap are both empty.
C22_EvictAll ==
    (arp_ret # NoEvict /\ arp_ret.count > Cardinality(DOMAIN arp_ret.held))
    => /\ arp_ret.result = arp_ret.held
       /\ DOMAIN cache = {}
       /\ DOMAIN rmap = {}

\* C23: the sequence number counter of a new peer is 0, the call number k of
\* ping (from 0) uses seq_num = k mod 2^16 whether the earlier pings have
\* completed, have timed out or are pending, and the counter goes from 65535
\* to 0 without an error.
C23_PingSeqNum ==
    /\ ping_seq_num_counter = ping_calls % Half
    /\ ping_seq_num_counter \in 0..(Half - 1)
    /\ \A call \in ping_log : call[2] = call[1] % Half
    /\ \A task \in IcmpTasks :
          task.kind = "ping" => \E call \in ping_log : call[2] = task.seq_num

\* The calls number 65535, 65536 and 65537 have used 65535, 0 and 1: the first
\* of them has timed out, the second has completed, the third is pending.
C23_Witness ==
    /\ ping_log = {<<Half - 1, Half - 1>>, <<Half, 0>>, <<Half + 1, 1>>}
    /\ \E task \in IcmpTasks :
          task.kind = "ping" /\ task.seq_num = Half - 1 /\ task.result = "Timeout"
    /\ \E task \in IcmpTasks :
          task.kind = "ping" /\ task.seq_num = 0 /\ task.result = "Ok"
    /\ \E task \in IcmpTasks :
          task.kind = "ping" /\ task.seq_num = 1 /\ task.pc = "query"
    /\ ~icmp_panicked

\* C24: whenever the future of ping(dest, timeout) has resolved with Ok, the
\* Duration it returns is at least 0 and at most timeout, for every schedule
\* of ticks and every delay of the ARP resolution before the echo request.
C24_DurationWithinTimeout ==
    \A seq_num \in PingSeqNums :
        ping_duration[seq_num] # <<>>
        => /\ ping_duration[seq_num][1] >= 0
           /\ ping_duration[seq_num][1] <= ping_timeout[seq_num][1]

C25_Step ==
    \* a listen that has failed
    /\ ret' = "ResourceBusy"
       => UNCHANGED <<connections, cxns, assigned_handles, unassigned_connection_handles,
                      unassigned_private_ports, open_ports, tasks, events, listened,
                      panicked>>
    \* a listen that has succeeded
    /\ listened' # listened
       => \E port \in Ports \ open_ports :
             /\ open_ports' = open_ports \cup {port}
             /\ listened' = listened \cup {port}
             /\ ret' = "Ok"
             /\ UNCHANGED <<connections, cxns, assigned_handles,
                            unassigned_connection_handles, unassigned_private_ports,
                            tasks, events, panicked>>
    /\ \A port \in Ports :
          listen(port) => /\ port \in open_ports <=> ret' = "ResourceBusy"
                          /\ port \notin open_ports <=> ret' = "Ok"
                          /\ port \in open_ports'

\* C25: listen(port) returns Ok and adds port to open_ports when port is not
\* in open_ports; otherwise it returns ResourceBusy and leaves the state of the
\* peer as it is.  It never changes the connection table, the handle map or
\* the unassigned pools.
C25_ListenBusy == [][C25_Step]_vars

\* listen has succeeded on port 1 and has just failed on a private port that a
\* connection holds.
C25_Witness ==
    /\ ret = "ResourceBusy"
    /\ 1 \in listened
    /\ FirstPrivatePort \in open_ports \ listened
    /\ \E k \in DOMAIN connections : k.local = FirstPrivatePort

\* The handle is that of a connection of the connection table.
C26_Identifies(handle) ==
    \E k \in DOMAIN connections : cxns[connections[k]].handle = handle

C26_Step ==
    \A handle \in Handles :
        (/\ ~C26_Identifies(handle)
         /\ \/ write(handle) \/ peek(handle) \/ read(handle)
            \/ get_mss(handle) \/ get_rto(handle) \/ get_connection_id(handle))
        => /\ ret' = "ResourceNotFound"
           /\ ~panicked'
           /\ UNCHANGED <<connections, cxns, assigned_handles,
                          unassigned_connection_handles, unassigned_private_ports,
                          open_ports, tasks, events, listened>>

\* C26: in every reachable state write, peek, read, get_mss, get_rto and
\* get_connection_id, called with a handle that is not that of a connection of
\* the connection table (never assigned, or of a connection that was closed),
\* return ResourceNotFound and change no state; they never panic.
C26_UnknownHandleNotFound == [][C26_Step]_vars

\* seq + n modulo 2^32 for the sequence number 2^32 - 1.
C27_Wrapped(n) == IF n = 0 THEN U32Max ELSE <<0, n - 1>>

C27_Step ==
    \* the RST for a segment to a port that is not open
    /\ \A seg \in InboundSegments :
          (/\ seg.remote # Broadcast /\ seg.lport \notin open_ports
           /\ seg.seq = U32Max /\ receive(seg))
          => /\ ret' = "Ok"
             /\ \E task \in Arrived :
                   /\ task.kind = "rst"
                   /\ task.seg.acknum = C27_Wrapped(seg.len + IF seg.syn THEN 1 ELSE 0)
    \* the handshake whose own SYN has the sequence number 2^32 - 1
    /\ \A task \in Tasks :
          (/\ task.pc = "handshake_wait" /\ Resumes(task)
           /\ SynSegmentOf(cxns[task.cxn]).seq = U32Max
           /\ cxns[task.cxn].receive_queue # <<>>
           /\ LET s == Head(cxns[task.cxn].receive_queue)
              IN /\ s.ack /\ ~s.rst /\ s.acknum = U32Zero
                 /\ s.syn <=> task.kind = "connect")
          => \/ RetryHandshake(task) \in Arrived   \* the round timed out first
             \/ [task EXCEPT !.pc = IF task.kind = "connect" THEN "final_ack"
                                    ELSE "main"] \in Arrived

\* C27: the sequence number computations of the peer are modulo 2^32 and do
\* not fail: the ack_num of the RST (seq + payload length + SYN bit) and the
\* expected_ack_num of the handshake (own SYN seq + 1) wrap when the operand
\* is 2^32 - 1, and a handshake whose ISN is 2^32 - 1 accepts ack_num = 0.
C27_SeqNumsWrap ==
    /\ [][C27_Step]_vars
    /\ [](\A task \in Tasks :
            task.pc = "handshake_wait"
            => SynSegmentOf(cxns[task.cxn]).seq = U32Max)

\* A RST with the wrapped ack_num 0 is queued for a SYN with seq = 2^32 - 1,
\* and a passive handshake with ISN 2^32 - 1 has accepted the ACK of 0.
C27_Witness ==
    /\ \E task \in Tasks : task.kind = "rst" /\ task.seg.acknum = U32Zero
    /\ \E task \in Tasks :
          /\ task.kind = "passive" /\ task.pc = "main"
          /\ cxns[task.cxn].local_isn = U32Max
          /\ cxns[task.cxn].seq_num = U32Zero

\* The step takes the first segment off the receive_queue of the connection c.
C28_Popped(c) ==
    /\ c \in DOMAIN cxns'
    /\ cxns[c].receive_queue # <<>>
    /\ cxns'[c].receive_queue = Tail(cxns[c].receive_queue)

\* ACK set, ack_num = own SYN seq + 1, and SYN set exactly when the own
\* segment did not carry ACK.
C28_Expected(cxn, s) ==
    /\ s.ack
    /\ s.acknum = U32Sum(SynSegmentOf(cxn).seq, 1)
    /\ s.syn <=> ~SynSegmentOf(cxn).ack

C28_Step ==
    \A task \in Tasks :
        task.pc = "handshake_wait"
        => LET c == task.cxn
               s == Head(cxns[c].receive_queue)
           IN \* the coroutine leaves its wait with a segment or at the Timeout
              \* of its round
              /\ Resumes(task)
                 => \/ C28_Popped(c)
                    \/ RetryHandshake(task) \in Arrived /\ cxns' = cxns
              /\ C28_Popped(c)
                 => IF s.rst
                    THEN HandshakeFailed(task, "ConnectionRefused") \in Arrived
                    ELSE IF C28_Expected(cxns[c], s)
                    THEN /\ [task EXCEPT !.pc = IF task.kind = "connect"
                                                THEN "final_ack" ELSE "main"] \in Arrived
                         /\ task.kind = "connect"
                            => cxns'[c].ack_num = U32Sum(s.seq, 1)
                    ELSE /\ tasks' = tasks
                         /\ cxns' = [cxns EXCEPT ![c].receive_queue = Tail(@)]

\* C28: after its SYN (active) or SYN+ACK (passive) the handshake takes the
\* segments of the receive_queue one at a time: a RST ends it with
\* ConnectionRefused; a segment with ACK, ack_num = own SYN seq + 1 and SYN
\* exactly when the own segment had no ACK ends it with that segment; any other
\* segment is dropped and the coroutine keeps waiting.
C28_HandshakeSegments == [][C28_Step]_vars

\* A passive handshake has taken a RST and has ended with ConnectionRefused.
C28_Witness ==
    \E task \in Tasks :
        /\ task.kind = "passive" /\ task.result = "ConnectionRefused"
        /\ task.cxn \in DOMAIN cxns /\ cxns[task.cxn].receive_queue = <<>>

\* The segment is not a bare SYN.
C29_NotBareSyn(seg) == ~(seg.syn /\ ~seg.ack /\ ~seg.rst)

C29_Step ==
    /\ \A seg \in InboundSegments :
          (/\ seg.remote # Broadcast /\ seg.lport \in open_ports
           /\ C29_NotBareSyn(seg) /\ receive(seg))
          => LET cxnid == [local |-> seg.lport, remote |-> seg.remote]
             IN /\ IF cxnid \in DOMAIN connections
                   THEN /\ ret' = "Ok"
                        /\ LET c == connections[cxnid]
                           IN cxns' = [cxns EXCEPT ![c].receive_queue =
                                           cxns[c].receive_queue \o <<seg>>]
                   ELSE /\ ret' = "ResourceNotFound"
                        /\ cxns' = cxns
                \* no coroutine is started, and nothing is left to run
                /\ tasks' = tasks
                /\ UNCHANGED <<connections, assigned_handles,
                               unassigned_connection_handles, unassigned_private_ports,
                               open_ports, events, listened, panicked>>
    \* ResourceNotFound is the answer to an unknown 4-tuple only
    /\ (ncalls' # ncalls /\ ret' = "ResourceNotFound")
       => /\ \E seg \in InboundSegments :
                /\ seg.lport \in open_ports /\ C29_NotBareSyn(seg)
                /\ [local |-> seg.lport, remote |-> seg.remote] \notin DOMAIN connections
          /\ UNCHANGED <<connections, cxns, assigned_handles,
                         unassigned_connection_handles, unassigned_private_ports,
                         open_ports, tasks, events, listened, panicked>>

\* C29: receive of a well-formed segment to an open port that is not a bare
\* SYN appends the segment to the back of the receive_queue of the connection
\* of its 4-tuple and changes nothing else; for a 4-tuple the connection table
\* does not have it returns ResourceNotFound and changes no state.  receive
\* returns without suspending.
C29_ReceiveQueues == [][C29_Step]_vars

\* receive has put a second, different segment behind the first one.
C29_Witness ==
    /\ ret = "Ok"
    /\ \E c \in DOMAIN cxns :
          /\ Len(cxns[c].receive_queue) = 2
          /\ cxns[c].receive_queue[1] # cxns[c].receive_queue[2]

C30_Step ==
    \A id \in DOMAIN coroutines :
        \* the generator of id is resumed
        /\ (coroutines[id].status = "AsleepUntil" /\ coroutines'[id].status = "Active")
           => /\ id \notin co_resumed
              /\ coroutines[id].when <= co_clock
        \* the generator of id yields
        /\ (coroutines[id].status = "Active" /\ coroutines'[id].status = "AsleepUntil")
           => coroutines'[id].when > coroutines[id].now

\* C30: a coroutine is resumed at most once for a value of the clock: when a
\* coroutine resumed at now has yielded it is AsleepUntil(t) with t > now, so
\* it is not due again before the clock has advanced, and a scheduler that
\* resumes due coroutines only never reaches the panic "attempt to resume a
\* coroutine that isn't ready".
C30_OncePerClock ==
    /\ [][C30_Step]_vars
    /\ [](co_ret.value # "panic")
    /\ [](\A id \in co_resumed :
            coroutines[id].status = "AsleepUntil" => coroutines[id].when > co_clock)

\* A coroutine resumed at the current value of the clock has yielded a zero
\* Duration: it sleeps until the next nanosecond and is not due again.
C30_Witness ==
    \E id \in co_resumed :
        /\ co_clock > 0
        /\ co_ret = Call(id, "false", <<0>>, TRUE)
        /\ coroutines[id].status = "AsleepUntil"
        /\ coroutines[id].when = co_clock + 1

\* C34: in every state reachable by insert, insert_with_ttl, advance_clock,
\* try_evict, clear and import, remove(ip) of an address of the forward cache
\* finds the MAC of its record in rmap: assert!(rmap.remove(..).is_some())
\* does not fail, also when two addresses were inserted with the same MAC and
\* one of them was removed.
C34_RemoveFindsMac == arp_panicked = FALSE

\* C33: when the coroutine of a ping has completed, with an RTT or with
\* Timeout, its key (id, seq_num) is not in outstanding_requests, so that
\* outstanding_requests has only the keys of pings that wait for their reply,
\* and assert!(outstanding_requests.insert(key)) holds for every new ping.
C33_CompletedKeyGone ==
    /\ \A task \in IcmpTasks :
          (task.kind = "ping" /\ task.pc = "done")
          => <<task.id, task.seq_num>> \notin outstanding_requests
    /\ \A key \in outstanding_requests :
          \E task \in IcmpTasks :
              task.kind = "ping" /\ task.pc = "wait" /\ key = <<task.id, task.seq_num>>

\* C35: whenever new_connection runs, from the connect coroutine or from a
\* passive open, the 4-tuple is not yet in the connection table and the handle
\* it has acquired is not yet in assigned_handles, so that both of its asserts
\* hold; and when it fails, no handle has left the unassigned pool.
C35_Runs(task, cxnid) ==
    /\ unassigned_connection_handles # <<>> => new_connection_asserts(cxnid)
    /\ unassigned_connection_handles = <<>>
       => unassigned_connection_handles' = unassigned_connection_handles

C35_Step ==
    \A task \in Tasks :
        /\ (task.kind = "connect" /\ new_active_connection(task))
           => C35_Runs(task, task.cxnid)
        /\ (/\ task.kind = "passive" /\ new_passive_connection(task)
            /\ task.seg.lport \in open_ports)
           => C35_Runs(task, [local |-> task.seg.lport, remote |-> task.seg.remote])

C35_NewConnectionAsserts == [][C35_Step]_vars

\* C32: a passive connection is only created for a local port on which listen
\* has succeeded: a bare SYN whose destination port is in open_ports only as
\* the private local port of an actively opened connection adds no entry to
\* the connection table.
C32_Step ==
    \A task \in Tasks :
        (/\ task.kind = "passive" /\ new_passive_connection(task)
         /\ task.seg.lport \notin listened)
        => connections' = connections

C32_PassiveOnlyOnListenedPort == [][C32_Step]_vars

\* ------------------------------------------------------------- scheduling
\* advance_clock is called again and again with a later time, and every call
\* polls the scheduler, which resumes each coroutine that is ready: a step a
\* coroutine can take is taken in the end, and a timeout that is being waited
\* for passes. What the remote peer sends (receive) and what the application
\* calls (listen, connect) is under no such obligation.
Fairness ==
    /\ WF_vars(advance_clock /\ UNCHANGED aux_vars)
    /\ WF_vars(\E task \in Tasks : connect_start(task) /\ UNCHANGED aux_vars)
    /\ WF_vars(\E task \in Tasks : new_active_connection(task) /\ UNCHANGED aux_vars)
    /\ WF_vars(\E task \in Tasks : new_passive_connection(task) /\ UNCHANGED aux_vars)
    /\ WF_vars(\E task \in Tasks : handshake(task) /\ UNCHANGED aux_vars)
    /\ WF_vars(\E task \in Tasks : handshake_wait(task) /\ UNCHANGED aux_vars)
    /\ WF_vars(\E task \in Tasks : handshake_timeout(task) /\ UNCHANGED aux_vars)
    /\ WF_vars(\E task \in Tasks : final_ack(task) /\ UNCHANGED aux_vars)
    /\ WF_vars(\E task \in Tasks : main_connection_loop(task) /\ UNCHANGED aux_vars)
    /\ WF_vars(\E task \in Tasks : pure_ack(task) /\ UNCHANGED aux_vars)
    /\ WF_vars(\E task \in Tasks : close_connection(task) /\ UNCHANGED aux_vars)
    /\ WF_vars(\E task \in Tasks : close_cast(task) /\ UNCHANGED aux_vars)
    /\ WF_vars(\E task \in Tasks : cast(task) /\ UNCHANGED aux_vars)

SpecFair == Init /\ [][Next]_vars /\ Fairness

\* C31: while advance_clock keeps being called with a later and later time,
\* every future of the background work (the cast of a RST,
\* new_passive_connection, on_connection_established) and every connect future
\* completes in the end, whether the remote peer answers, stays silent or
\* sends a RST. A peer that has panicked is left aside.
C31_EveryFutureCompletes ==
    <>[](panicked \/ \A task \in Tasks : task.pc = "done")

====
